---- MODULE Spec2Model ----
(***************************************************************************)
(* Model of the CKB chain driver of the relayer                            *)
(* (crates/relayer/src/chain/ckb.rs): the create / update multi-client     *)
(* workflows, the signed submission with confirmation polling, the local   *)
(* proof store with its rollback checkpoint, and the ledger holding the    *)
(* ring-buffer family of client cells.                                     *)
(***************************************************************************)
EXTENDS Integers, Sequences, FiniteSets, TLC

(* ------------------------------ bounds --------------------------------- *)
MaxSlot == 3          \* source-chain slots are 1..MaxSlot
MaxCalls == 3         \* workflow invocations per behaviour
MaxTx == 2            \* transactions broadcast per behaviour
MaxThreads == 2       \* threads sharing one driver
SlotModulus == 16     \* u64 arithmetic of Slot, scaled down from 2^64
CellsCount == 3       \* configured client_type_args.cells_count
ConfigMinimalUpdatesCount == 2   \* configured minimal_updates_count

(* ------------------------- program constants --------------------------- *)
PollInterval == 3     \* Duration::from_secs(3)
PollDeadlineLate == 60 + 6   \* variant: a deadline two polls too long
PollDeadline == 60    \* Duration::from_secs(60)

NoSlot == -1          \* Option<Slot>::None
NoTypeId == -1        \* client_type_args.type_id == None
PreTypeId == 0        \* a type_id written in the configuration file
Slots == 1..MaxSlot

VARIABLES
    storage,                        \* CkbChain.storage: [base, tip] window
    config_type_id,                 \* CkbChain.config.client_type_args.type_id
    cached_onchain_packed_client,   \* CkbChain.cached_onchain_packed_client
    cached_network,                 \* CkbChain.cached_network
    cached_tx_assembler_address,    \* CkbChain.cached_tx_assembler_address
    chain_name,                     \* ledger: get_blockchain_info().chain
    chain,                          \* ledger: type_id -> ring-buffer family
    pool,                           \* ledger: broadcast, uncommitted transactions
    committed,                      \* ledger: hashes of committed transactions
    tx_count,                       \* ledger: transactions accepted so far
    pc,                             \* position of the running workflow
    op,                             \* "create" | "update" | "none"
    header_updates,                 \* the batch (sequence of slots)
    update_cells,                   \* fetched UpdateCells snapshot
    minimal_updates_count,          \* span policy used by this call
    prev_slot_opt,                  \* rollback checkpoint
    new_client,                     \* client record returned by the verifier
    updated_client,                 \* update: the record re-tagged for the ring
    tx,                             \* assembled transaction
    signed,                         \* signer::sign returned the signed transaction
    time_used,                      \* confirmation poll clock (seconds)
    steps,                          \* steps executed by the current call
    pre_storage,                    \* storage when the call started
    result,                         \* what the last call returned
    outcome,                        \* end state of the submission attempt
    rb,                             \* the rollback performed by this call
    timed_out,                      \* hashes whose confirmation wait timed out
    calls,                          \* number of workflow invocations
    send_error,                     \* the error the broadcast arm produced
    status_log,                     \* what the last print_status_log did
    callers,                        \* threads inside network() / tx_assembler_address()
    locks,                          \* the RwLocks of the two cached fields
    tracked_msgs,                   \* what send_messages_and_wait_commit was given
    conv,                           \* the last AnyClientState <-> Any conversion
    shape,                          \* a create call seen from its cell layout
    clients_reply,                  \* what the last query_clients returned
    span_check,                     \* the last span test on a client record
    past                            \* what earlier calls on this driver did

driver == <<storage, config_type_id, cached_onchain_packed_client,
            cached_network, cached_tx_assembler_address>>
ledger == <<chain_name, chain, pool, committed, tx_count>>
locals == <<op, header_updates, update_cells, minimal_updates_count,
            prev_slot_opt, new_client, updated_client, tx, signed, time_used>>
history == <<steps, pre_storage, result, outcome, rb, timed_out, calls,
            send_error, status_log>>
concurrent == <<callers, locks>>
pure == <<conv, shape, clients_reply, span_check>>
vars == <<driver, ledger, pc, locals, history, past, concurrent,
          tracked_msgs, pure>>

(* ------------------------------ values --------------------------------- *)
ClientCount == CellsCount - 1
NoClient == [id |-> -1, minimal_slot |-> NoSlot, maximal_slot |-> NoSlot]
NoCells == [found |-> FALSE]
NoFamily == [exists |-> FALSE]
NoTx == [hash |-> 0]
EmptyStorage == [base |-> NoSlot, tip |-> NoSlot]
NoRollback == [site |-> "none", orig |-> "none", ok |-> TRUE, to |-> NoSlot]
NoResult == [kind |-> "none", slot |-> NoSlot]
NoSendError == [kind |-> "none", text |-> <<>>, diag |-> "none"]
NoneStatus == [none |-> TRUE, lines |-> <<>>]
NoTrackedMsgs == [tracking_id |-> "none", converted |-> TRUE, len |-> 0]
NoClientState == [variant |-> "none", latest_height |-> NoSlot,
                  frozen_height |-> NoSlot]
NoAny == [type_url |-> "none", value |-> <<>>]
NoBack == [kind |-> "none", state |-> NoClientState, type_url |-> "none"]
NoConv == [op |-> "none", client_state |-> NoClientState, raw |-> NoAny,
           back |-> NoBack]
NoInfo == [last_id |-> -1, minimal_updates_count |-> -1]
NoShape == [pc |-> "idle", cells_count |-> 0, client_count |-> -1,
            minimal_updates_count |-> 0, packed_client |-> NoClient,
            clients |-> <<>>, client_info |-> NoInfo, steps |-> <<>>]
NoReply == [asked |-> FALSE, clients |-> <<>>]
\* no create has returned Ok, no fetch has found the family's cells
NoPast == [bootstrapped |-> FALSE, fetched |-> FALSE]
NoStatusLog == [called |-> FALSE, ok |-> TRUE, queried |-> FALSE,
                read_failed |-> "none",
                onchain |-> NoneStatus, native |-> NoneStatus]

Client(i, lo, hi) == [id |-> i, minimal_slot |-> lo, maximal_slot |-> hi]

\* the batches a caller may hand in: contiguous runs of slots, or nothing
Range(lo, hi) == [i \in 1..(hi - lo + 1) |-> lo + i - 1]
Batches == {<<>>} \cup {Range(lo, hi) : lo \in Slots, hi \in Slots}

(* -------------------------- Local Proof Store --------------------------- *)
\* Storage::get_tip_beacon_header_slot
get_tip_beacon_header_slot(st) == st.tip

\* Storage::get_base_beacon_header_slot
get_base_beacon_header_slot(st) == st.base

\* Storage::rollback_to(Option<Slot>): discard every record after `slot`
rollback_to(st, slot) ==
    IF st.tip = NoSlot THEN st
    ELSE IF slot = NoSlot \/ slot < st.base THEN EmptyStorage
    ELSE IF slot < st.tip THEN [st EXCEPT !.tip = slot]
    ELSE st

\* the stores a rollback_to that returns an error may leave behind
failed_rollback(st, slot) ==
    {st} \cup {rollback_to(st, s) : s \in {t \in Slots : t >= slot}}

\* append of a verified batch (done inside the Verifier Adapter)
append(st, batch) ==
    IF st.tip = NoSlot
    THEN [base |-> batch[1], tip |-> batch[Len(batch)]]
    ELSE [st EXCEPT !.tip = batch[Len(batch)]]

(* --------------------------- Alignment Engine --------------------------- *)
RECURSIVE SelectAfter(_, _)
SelectAfter(batch, slot) ==
    IF batch = <<>> THEN <<>>
    ELSE IF batch[1] <= slot THEN SelectAfter(Tail(batch), slot)
    ELSE <<batch[1]>> \o SelectAfter(Tail(batch), slot)

\* utils::align_native_and_onchain_updates: the trimmed batch
aligned_updates(batch, onchain) ==
    IF onchain = NoClient THEN batch
    ELSE SelectAfter(batch, onchain.maximal_slot)

\* utils::align_native_and_onchain_updates: does it succeed
align_ok(batch, onchain) ==
    \/ onchain = NoClient
    \/ /\ aligned_updates(batch, onchain) # <<>>
       /\ aligned_updates(batch, onchain)[1] = onchain.maximal_slot + 1

(* --------------------------- Verifier Adapter --------------------------- *)
\* utils::get_verified_packed_client_and_proof_update can succeed only on a
\* batch that extends the store without a gap
verify_can_succeed(batch, st) ==
    /\ batch # <<>>
    /\ st.tip # NoSlot => batch[1] = st.tip + 1

\* the client records the verifier may return for a batch: they end at the
\* last verified slot and start at the store's base or at the batch's head
verified_clients(batch, st) ==
    {Client(0, lo, batch[Len(batch)]) : lo \in {append(st, batch).base, batch[1]}}

(* ------------------------------- ledger --------------------------------- *)
\* rpc_client.fetch_update_cells
fetch_update_cells(fam) ==
    IF ~fam.exists THEN NoCells
    ELSE [found |-> TRUE,
          oldest |-> fam.clients[(fam.last_id + 1) % ClientCount],
          latest |-> fam.clients[fam.last_id],
          info |-> [last_id |-> fam.last_id,
                    minimal_updates_count |-> fam.minimal_updates_count],
          ver |-> fam.ver]

\* can the ledger commit transaction t now (are its inputs live)
can_commit(t) ==
    IF t.kind = "create" THEN ~chain[t.type_id].exists
    ELSE chain[t.type_id].exists /\ chain[t.type_id].ver = t.spent_ver

\* the family after transaction t is committed
commit_family(fam, t) ==
    IF t.kind = "create"
    THEN [exists |-> TRUE,
          clients |-> [i \in 0..(ClientCount - 1) |-> t.clients[i]],
          last_id |-> t.info.last_id,
          minimal_updates_count |-> t.info.minimal_updates_count,
          ver |-> 1]
    ELSE [fam EXCEPT !.clients = [i \in DOMAIN fam.clients |->
                                    IF i \in DOMAIN t.clients
                                    THEN t.clients[i] ELSE fam.clients[i]],
                     !.last_id = t.info.last_id,
                     !.ver = fam.ver + 1]

(* --------------------------- driver helpers ----------------------------- *)
NoNetwork == "NoNetwork"
NoAddress == [network |-> NoNetwork]

\* CkbChain::network: the NetworkType for a chain name
\* variant: the testnet arm is missing
network_type_without_testnet(name) ==
    IF name = "ckb" THEN "Mainnet" ELSE "Dev"
network_type(name) ==
    IF name = "ckb" THEN "Mainnet"
    ELSE IF name = "ckb_testnet" THEN "Testnet"
    ELSE "Dev"

\* Address::new(network, payload_of_key, true)
address_of(network) == [network |-> network]

\* the span test of get_new_client_and_proof, in u64 arithmetic
span(client) == (client.maximal_slot - client.minimal_slot + 1) % SlotModulus

\* variant: the boundary span is rejected too
not_enough_updates_le(client, muc) == span(client) <= muc
not_enough_updates(client, muc) == span(client) < muc

\* update_eth_multi_client: the verified record re-tagged for the ring
\* variant: the latest slot is overwritten instead of the oldest
retag_latest(client, cells) == [client EXCEPT !.id = cells.latest.id]
retag(client, cells) == [client EXCEPT !.id = cells.oldest.id]

\* u8::checked_sub: None when the difference would be negative
checked_sub(a, b) == IF a >= b THEN a - b ELSE -1

\* create_eth_multi_client: (0..client_count).map(|i| packed_client.id(i))
\* variant: one record for every cell of the family, the info cell included
create_clients_for_every_cell(packed_client, client_count) ==
    [i \in 0..client_count |-> [packed_client EXCEPT !.id = i]]
create_clients_for(packed_client, client_count) ==
    [i \in 0..(client_count - 1) |-> [packed_client EXCEPT !.id = i]]

\* create_eth_multi_client: the client records of a new family
create_clients(packed_client) == create_clients_for(packed_client, ClientCount)

\* create_eth_multi_client: the ClientInfo of a new family
create_client_info(muc) == [last_id |-> 0, minimal_updates_count |-> muc]

\* assemble_create_multi_client_transaction
assemble_create(hash, clients, info) ==
    [hash |-> hash, kind |-> "create", type_id |-> hash, clients |-> clients,
     info |-> info, spent_ver |-> 0]

\* assemble_update_multi_client_transaction
assemble_update(hash, cells, client, type_id) ==
    [hash |-> hash, kind |-> "update", type_id |-> type_id,
     clients |-> [i \in {client.id} |-> client],
     info |-> [last_id |-> client.id,
               minimal_updates_count |-> cells.info.minimal_updates_count],
     spent_ver |-> cells.ver]

\* the error a rollback site returns: the closure given to map_err
\* variant: the rollback error is swallowed
map_err_rollback_swallow(orig, rollback_ok) == orig
map_err_rollback(orig, rollback_ok) == IF rollback_ok THEN orig ELSE "storage"

\* which failing steps of a workflow are followed by storage.rollback_to
\* variants: no rollback after a timeout; a rollback after a failed status report
rolls_back_no_timeout(step) == step \in {"check", "sign", "send"}
rolls_back_status(step) == step \in {"check", "sign", "send", "poll", "status"}
\* variant: a failed verification is followed by a rollback as well
rolls_back_verify(step) == step \in {"verify", "check", "sign", "send", "poll"}
rolls_back(step) == step \in {"check", "sign", "send", "poll"}

\* sign_and_send_transaction: `?` on get_key, network() and signer::sign
\* variant: the result of signer::sign is not looked at
sign_succeeds_unchecked(key_ok, net_ok, sign_ok) == key_ok /\ net_ok
sign_succeeds(key_ok, net_ok, sign_ok) == key_ok /\ net_ok /\ sign_ok

\* create_eth_multi_client: where the call goes after reading the type_id
\* variant: create skips the existence check
create_entry_unchecked(type_id) == "align"
\* variant: only the type_id of the configuration file is checked
create_entry_preconfigured(type_id) ==
    IF type_id = PreTypeId THEN "c_fetch" ELSE "align"
create_entry(type_id) == IF type_id # NoTypeId THEN "c_fetch" ELSE "align"

\* self.cached_onchain_packed_client = Some(latest_client): an overwrite
\* variant: the cache is filled once and then kept, as the network cache is
cache_latest_client_once(cached, latest_client) ==
    IF cached # NoClient THEN cached ELSE latest_client
cache_latest_client(cached, latest_client) == latest_client

\* create_eth_multi_client: the slot reported by "already exists"
onchain_base_slot(latest_client) == latest_client.minimal_slot

Err(kind) == [kind |-> kind, slot |-> NoSlot]

\* the argument of storage.rollback_to at the rollback sites: the checkpoint
\* variant: the store is always rolled back to empty
rollback_arg_none(checkpoint) == NoSlot
rollback_arg(checkpoint) == checkpoint

\* where a workflow goes when a step has failed: `?` returns to the caller
\* variant: a failed broadcast is attempted again
on_error_resend(step) == IF step = "send" THEN "send" ELSE "idle"
\* variant: a failed alignment is ignored
on_error_ignore_align(step) == IF step = "align" THEN "verify" ELSE "idle"
on_error(step) == "idle"

\* return Err(kind) from the workflow, after rollback_to when the step has one
Fail(step, kind) ==
    IF rolls_back(step)
    THEN \E ok \in BOOLEAN :
           /\ storage' \in (IF ok THEN {rollback_to(storage, rollback_arg(prev_slot_opt))}
                            ELSE failed_rollback(storage,
                                                 rollback_arg(prev_slot_opt)))
           /\ rb' = [site |-> step, orig |-> kind, ok |-> ok,
                     to |-> rollback_arg(prev_slot_opt)]
           /\ result' = Err(map_err_rollback(kind, ok))
           /\ pc' = on_error(step)
    ELSE /\ storage' = storage
         /\ rb' = rb
         /\ result' = Err(kind)
         /\ pc' = on_error(step)

\* threads that call network() / tx_assembler_address() on a shared driver
Threads == 1..MaxThreads
IdleCaller == [pc |-> "idle", fn |-> "none", net |-> NoNetwork,
               ret |-> [kind |-> "none", network |-> NoNetwork],
               n_late |-> FALSE, a_late |-> FALSE, io |-> {}]
\* RwLock::new(None): no reader, no writer
Unlocked == [readers |-> {}, writer |-> 0]
NoLocks == [network |-> Unlocked, address |-> Unlocked]

TypeIds == 0..MaxTx
Family(lo, hi) ==
    [exists |-> TRUE,
     clients |-> [i \in 0..(ClientCount - 1) |-> Client(i, lo, hi)],
     last_id |-> 0,
     minimal_updates_count |-> ConfigMinimalUpdatesCount,
     ver |-> 1]

(* -------------------------------- Init ---------------------------------- *)
\* CkbChain::bootstrap: empty caches, unlocked locks, and no call running
InitIdle ==
    /\ cached_onchain_packed_client = NoClient
    /\ cached_network = NoNetwork
    /\ cached_tx_assembler_address = NoAddress
    /\ pool = {}
    /\ committed = {}
    /\ tx_count = 0
    /\ pc = "idle"
    /\ op = "none"
    /\ header_updates = <<>>
    /\ update_cells = NoCells
    /\ minimal_updates_count = 0
    /\ prev_slot_opt = NoSlot
    /\ new_client = NoClient
    /\ updated_client = NoClient
    /\ tx = NoTx
    /\ signed = FALSE
    /\ time_used = 0
    /\ timed_out = {}
    /\ steps = <<>>
    /\ pre_storage = EmptyStorage
    /\ result = NoResult
    /\ outcome = "none"
    /\ rb = NoRollback
    /\ calls = 0
    /\ send_error = NoSendError
    /\ status_log = NoStatusLog
    /\ callers = [t \in Threads |-> IdleCaller]
    /\ locks = NoLocks
    /\ tracked_msgs = NoTrackedMsgs
    /\ conv = NoConv
    /\ shape = NoShape
    /\ clients_reply = NoReply
    /\ span_check = [asked |-> FALSE, minimal_slot |-> 0, maximal_slot |-> 0,
                     minimal_updates_count |-> 0, underflow |-> FALSE,
                     overflow |-> FALSE, outcome |-> "none"]
    /\ past = NoPast

\* the chain names a node may report
ChainNames == {"ckb", "ckb_testnet", "ckb_dev"}

\* CkbChain::bootstrap: the configuration either has no type_id or names a
\* family, which the ledger may or may not hold; the workflows run against a
\* mainnet node (the other chain names are met by the callers of network())
Init ==
    /\ InitIdle
    /\ chain_name = "ckb"
    /\ \/ /\ config_type_id = NoTypeId
          /\ chain = [t \in TypeIds |-> NoFamily]
          /\ storage = EmptyStorage
       \/ /\ config_type_id = PreTypeId
          /\ chain = [t \in TypeIds |-> NoFamily]
          /\ storage = EmptyStorage
       \/ /\ config_type_id = PreTypeId
          /\ chain = [t \in TypeIds |->
                        IF t = PreTypeId THEN Family(1, 1) ELSE NoFamily]
          /\ storage = [base |-> 1, tip |-> 1]

\* entry of a workflow: fresh locals
Begin(o, batch, muc) ==
    /\ pc = "idle"
    /\ calls < MaxCalls
    /\ calls' = calls + 1
    /\ op' = o
    /\ header_updates' = batch
    /\ update_cells' = NoCells
    /\ minimal_updates_count' = muc
    /\ prev_slot_opt' = NoSlot
    /\ new_client' = NoClient
    /\ updated_client' = NoClient
    /\ tx' = NoTx
    /\ signed' = FALSE
    /\ timed_out' = timed_out
    /\ time_used' = 0
    /\ steps' = <<>>
    /\ pre_storage' = storage
    /\ outcome' = "none"
    /\ rb' = NoRollback
    /\ send_error' = NoSendError
    /\ status_log' = NoStatusLog

(* ------------------------ create_eth_multi_client ----------------------- *)
\* entry: a configured type_id leads to the existence check
create_eth_multi_client(batch) ==
    /\ Begin("create", batch, ConfigMinimalUpdatesCount)
    /\ pc' = create_entry(config_type_id)
    /\ result' = [kind |-> "running", slot |-> NoSlot]
    /\ UNCHANGED <<driver, ledger, past, concurrent, pure>>

\* create_eth_multi_client called with any batch
CreateStart ==
    \E batch \in Batches :
      create_eth_multi_client(batch) /\ UNCHANGED tracked_msgs

\* create_eth_multi_client: both arms of the existence check return
after_existence_check(found) == "idle"

\* the existence check: fetch_update_cells, then always an error
CreateFetch ==
    /\ pc = "c_fetch"
    /\ steps' = Append(steps, "fetch")
    /\ \E rpc_ok \in BOOLEAN :
         LET cells == fetch_update_cells(chain[config_type_id]) IN
         IF ~rpc_ok
         THEN /\ result' = Err("rpc")
              /\ pc' = "idle"
              /\ UNCHANGED <<cached_onchain_packed_client, past>>
         ELSE IF cells.found
         THEN /\ pc' = after_existence_check(cells.found)
              /\ past' = [past EXCEPT !.fetched = TRUE]
              /\ cached_onchain_packed_client' =
                   cache_latest_client(cached_onchain_packed_client,
                                       cells.latest)
              /\ result' = [kind |-> "already_exists",
                            slot |-> onchain_base_slot(cells.latest)]
         ELSE /\ result' = Err("no_cells_for_config")
              /\ pc' = after_existence_check(cells.found)
              /\ UNCHANGED <<cached_onchain_packed_client, past>>
    /\ UNCHANGED <<storage, config_type_id, cached_network,
                   cached_tx_assembler_address, ledger, locals,
                   pre_storage, outcome, rb, timed_out, calls,
                   send_error, status_log, concurrent, pure, tracked_msgs>>

(* ------------------------ update_eth_multi_client ----------------------- *)
\* entry: without a type_id the call fails before any ledger query
update_eth_multi_client(batch) ==
    /\ Begin("update", batch, 0)
    /\ IF config_type_id = NoTypeId
       THEN pc' = "idle" /\ result' = Err("no_type_id")
       ELSE pc' = "u_fetch" /\ result' = [kind |-> "running", slot |-> NoSlot]
    /\ UNCHANGED <<driver, ledger, past, concurrent, pure>>

\* update_eth_multi_client called with any batch
UpdateStart ==
    \E batch \in Batches :
      update_eth_multi_client(batch) /\ UNCHANGED tracked_msgs

\* update_eth_multi_client: `let Some(update_cells) = ... else { return Err }`
\* variant: an update without cells goes on as a create does
after_fetch_lenient(found) == "align"
after_fetch(found) == IF found THEN "align" ELSE "idle"

\* update_eth_multi_client: the span policy of the call, read from the info
\* cell that was fetched
\* variant: update takes the configured value, as create does
update_minimal_updates_count_configured(cells, configured) == configured
update_minimal_updates_count(cells, configured) ==
    cells.info.minimal_updates_count

\* fetch_update_cells; caches the latest client and reads the span policy
UpdateFetch ==
    /\ pc = "u_fetch"
    /\ steps' = Append(steps, "fetch")
    /\ \E rpc_ok \in BOOLEAN :
         LET cells == fetch_update_cells(chain[config_type_id]) IN
         IF ~rpc_ok
         THEN /\ result' = Err("rpc")
              /\ pc' = "idle"
              /\ UNCHANGED <<cached_onchain_packed_client, update_cells,
                             minimal_updates_count, past>>
         ELSE IF cells.found
         THEN /\ cached_onchain_packed_client' =
                   cache_latest_client(cached_onchain_packed_client,
                                       cells.latest)
              /\ update_cells' = cells
              /\ minimal_updates_count' =
                   update_minimal_updates_count(cells, ConfigMinimalUpdatesCount)
              /\ pc' = after_fetch(cells.found)
              /\ past' = [past EXCEPT !.fetched = TRUE]
              /\ UNCHANGED result
         ELSE /\ result' = Err("no_cells")
              /\ pc' = after_fetch(cells.found)
              /\ UNCHANGED <<cached_onchain_packed_client, update_cells,
                             minimal_updates_count, past>>
    /\ UNCHANGED <<storage, config_type_id, cached_network,
                   cached_tx_assembler_address, ledger, op, header_updates,
                   prev_slot_opt, new_client, updated_client, tx, signed,
                   time_used, pre_storage, outcome, rb, timed_out, calls,
                   send_error, status_log, concurrent, pure, tracked_msgs>>

(* ------------------------ get_new_client_and_proof ---------------------- *)
\* utils::align_native_and_onchain_updates(...)?
Align ==
    /\ pc = "align"
    /\ steps' = Append(steps, "align")
    /\ IF align_ok(header_updates, cached_onchain_packed_client)
       THEN /\ header_updates' =
                 aligned_updates(header_updates, cached_onchain_packed_client)
            /\ pc' = "verify"
            /\ UNCHANGED <<storage, rb, result>>
       ELSE /\ Fail("align", "alignment")
            /\ UNCHANGED header_updates
    /\ UNCHANGED <<config_type_id, cached_onchain_packed_client,
                   cached_network, cached_tx_assembler_address, ledger, op,
                   update_cells, minimal_updates_count, prev_slot_opt,
                   new_client, updated_client, tx, signed, time_used,
                   pre_storage, outcome, timed_out, calls,
                   send_error, status_log, past, concurrent, pure, tracked_msgs>>

\* utils::get_verified_packed_client_and_proof_update(...)?
Verify ==
    /\ pc = "verify"
    /\ steps' = Append(steps, "verify")
    /\ \/ /\ verify_can_succeed(header_updates, storage)
          /\ \E c \in verified_clients(header_updates, storage) :
               /\ new_client' = c
               /\ prev_slot_opt' = get_tip_beacon_header_slot(storage)
               /\ storage' = append(storage, header_updates)
               /\ pc' = "check"
               /\ UNCHANGED <<rb, result>>
       \/ /\ Fail("verify", "verification")
          /\ UNCHANGED <<new_client, prev_slot_opt>>
    /\ UNCHANGED <<config_type_id, cached_onchain_packed_client,
                   cached_network, cached_tx_assembler_address, ledger, op,
                   header_updates, update_cells, minimal_updates_count,
                   updated_client, tx, signed, time_used, pre_storage,
                   outcome, timed_out, calls,
                   send_error, status_log, past, concurrent, pure, tracked_msgs>>

\* the span policy; on success the record goes on, re-tagged by update
CheckSpan ==
    /\ pc = "check"
    /\ IF not_enough_updates(new_client, minimal_updates_count)
       THEN /\ Fail("check", "not_enough_updates")
            /\ steps' = Append(steps, "rollback")
            /\ UNCHANGED updated_client
       ELSE /\ updated_client' = IF op = "update"
                                 THEN retag(new_client, update_cells)
                                 ELSE updated_client
            /\ pc' = "address"
            /\ UNCHANGED <<storage, rb, result, steps>>
    /\ UNCHANGED <<config_type_id, cached_onchain_packed_client,
                   cached_network, cached_tx_assembler_address, ledger, op,
                   header_updates, update_cells, minimal_updates_count,
                   prev_slot_opt, new_client, tx, signed, time_used,
                   pre_storage, outcome, timed_out, calls,
                   send_error, status_log, past, concurrent, pure, tracked_msgs>>

(* ------------------------- tx_assembler_address ------------------------- *)
\* CkbChain::network: cached value, else get_blockchain_info (may fail)
network_results(cached, name) ==
    IF cached # NoNetwork THEN {cached}
    ELSE {network_type(name), "rpc_response"}

\* tx_assembler_address()?: cached address, else network() and get_key
Address ==
    /\ pc = "address"
    /\ steps' = Append(steps, "address")
    /\ IF cached_tx_assembler_address # NoAddress
       THEN /\ pc' = "assemble"
            /\ UNCHANGED <<storage, rb, result, cached_network,
                           cached_tx_assembler_address>>
       ELSE \E net \in network_results(cached_network, chain_name),
               key_ok \in BOOLEAN :
              IF net = "rpc_response"
              THEN /\ Fail("address", "rpc_response")
                   /\ UNCHANGED <<cached_network, cached_tx_assembler_address>>
              ELSE /\ cached_network' = net
                   /\ IF key_ok
                      THEN /\ cached_tx_assembler_address' = address_of(net)
                           /\ pc' = "assemble"
                           /\ UNCHANGED <<storage, rb, result>>
                      ELSE /\ Fail("address", "key_base")
                           /\ UNCHANGED cached_tx_assembler_address
    /\ UNCHANGED <<config_type_id, cached_onchain_packed_client, ledger,
                   locals, pre_storage, outcome, timed_out, calls,
                   send_error, status_log, past, concurrent, pure, tracked_msgs>>

(* ------------------------------ assembler ------------------------------- *)
\* assemble_create/update_multi_client_transaction(...)?
Assemble ==
    /\ pc = "assemble"
    /\ steps' = Append(steps, "assemble")
    /\ \/ /\ tx_count < MaxTx
          /\ tx' = IF op = "create"
                   THEN assemble_create(tx_count + 1,
                                        create_clients(new_client),
                                        create_client_info(minimal_updates_count))
                   ELSE assemble_update(tx_count + 1, update_cells,
                                        updated_client, config_type_id)
          /\ pc' = "sign"
          /\ UNCHANGED <<storage, rb, result>>
       \/ /\ Fail("assemble", "assemble")
          /\ UNCHANGED tx
    /\ UNCHANGED <<config_type_id, cached_onchain_packed_client,
                   cached_network, cached_tx_assembler_address, ledger, op,
                   header_updates, update_cells, minimal_updates_count,
                   prev_slot_opt, new_client, updated_client, signed,
                   time_used, pre_storage, outcome, timed_out, calls,
                   send_error, status_log, past, concurrent, pure, tracked_msgs>>

(* ----------------------- sign_and_send_transaction ---------------------- *)
\* get_key, network() and signer::sign; any failure ends the attempt
Sign ==
    /\ pc = "sign"
    /\ steps' = Append(steps, "sign")
    /\ \E key_ok \in BOOLEAN,
          net \in network_results(cached_network, chain_name),
          sign_ok \in BOOLEAN :
         /\ cached_network' = IF key_ok /\ net # "rpc_response"
                               THEN net ELSE cached_network
         /\ signed' = (key_ok /\ net # "rpc_response" /\ sign_ok)
         /\ IF sign_succeeds(key_ok, net # "rpc_response", sign_ok)
            THEN /\ pc' = "send"
                 /\ UNCHANGED <<storage, rb, result, outcome>>
            ELSE /\ Fail("sign", IF key_ok /\ net = "rpc_response"
                                 THEN "rpc_response" ELSE "key_base")
                 /\ outcome' = "SignFailed"
    /\ UNCHANGED <<config_type_id, cached_onchain_packed_client,
                   cached_tx_assembler_address, ledger, op, header_updates,
                   update_cells, minimal_updates_count, prev_slot_opt,
                   new_client, updated_client, tx, time_used, pre_storage,
                   timed_out, calls,
                   send_error, status_log, past, concurrent, pure, tracked_msgs>>

\* utils::collect_ckb_tx_pool_info_on_duplicate_tx: what the diagnostic query
\* may return for a transport error; it looks at the pool only on a duplicate
pool_diagnostics(e) ==
    IF e = "duplicate"
    THEN {[ok |-> TRUE, log |-> "pool_info"], [ok |-> TRUE, log |-> ""],
          [ok |-> FALSE, log |-> ""]}
    ELSE {[ok |-> TRUE, log |-> ""]}

\* Result<String, _>::unwrap_or_default
unwrap_or_default(diag) == IF diag.ok THEN diag.log ELSE ""

\* format!("{e}\n{pool_log}\n{tx_info}\n"): the fragments of the error text
send_tx_text(e, pool_log, tx_info) == <<e, pool_log, tx_info>>

\* the kind of the error the failed broadcast arm builds: Error::send_tx
\* variant: a failed diagnostic query is propagated with `?`
send_error_kind_propagating(diag) == IF diag.ok THEN "send_tx" ELSE "rpc"
send_error_kind(diag) == "send_tx"

\* rpc_client.send_transaction(tx, Passthrough); a failure is a send_tx error
Send ==
    /\ pc = "send"
    /\ steps' = Append(steps, "broadcast")
    /\ \E send_res \in {"ok", "duplicate", "rejected"} :
         IF send_res = "ok"
         THEN /\ pool' = pool \cup {tx}
              /\ tx_count' = tx_count + 1
              /\ time_used' = 0
              /\ pc' = "poll"
              /\ UNCHANGED <<storage, rb, result, outcome, send_error>>
         ELSE \E diag \in pool_diagnostics(send_res) :
                /\ send_error' =
                     [kind |-> send_error_kind(diag),
                      text |-> send_tx_text(send_res, unwrap_or_default(diag),
                                            tx.hash),
                      diag |-> IF ~diag.ok THEN "failed"
                               ELSE IF diag.log = "" THEN "empty" ELSE "ok"]
                /\ Fail("send", send_error_kind(diag))
                /\ outcome' = "Rejected"
                /\ UNCHANGED <<pool, tx_count, time_used>>
    /\ UNCHANGED <<config_type_id, cached_onchain_packed_client,
                   cached_network, cached_tx_assembler_address, chain_name,
                   chain, committed, op, header_updates, update_cells,
                   minimal_updates_count, prev_slot_opt, new_client,
                   updated_client, tx, signed, pre_storage, timed_out, calls,
                   status_log, past, concurrent, pure, tracked_msgs>>

\* utils::wait_ckb_transaction_committed: is the deadline exhausted
deadline_reached(used) == used >= PollDeadline

\* utils::wait_ckb_transaction_committed: one turn of the polling loop
Poll ==
    /\ pc = "poll"
    /\ IF deadline_reached(time_used)
       THEN /\ Fail("poll", "timeout")
            /\ outcome' = "TimedOut"
            /\ timed_out' = timed_out \cup {tx.hash}
            /\ UNCHANGED <<time_used, steps>>
       ELSE /\ steps' = IF time_used = 0 THEN Append(steps, "poll") ELSE steps
            /\ IF tx.hash \in committed
               THEN /\ pc' = "confirmed" /\ outcome' = "Confirmed"
                    /\ time_used' = 0
               ELSE /\ pc' = "poll" /\ outcome' = outcome
                    /\ time_used' = time_used + PollInterval
            /\ UNCHANGED <<storage, rb, result, timed_out>>
    /\ UNCHANGED <<config_type_id, cached_onchain_packed_client,
                   cached_network, cached_tx_assembler_address, ledger, op,
                   header_updates, update_cells, minimal_updates_count,
                   prev_slot_opt, new_client, updated_client, tx, signed,
                   pre_storage, calls,
                   send_error, status_log, past, concurrent, pure, tracked_msgs>>

\* create_eth_multi_client: the type_id held by the configuration after a
\* Confirmed transaction; update has no such assignment
\* variant: create does not record the minted type_id
written_type_id_stale(o, type_id, minted) == type_id
\* variant: a confirmed update forgets the type_id
written_type_id_forgetful(o, type_id, minted) ==
    IF o = "create" THEN minted ELSE NoTypeId
written_type_id(o, type_id, minted) == IF o = "create" THEN minted ELSE type_id

\* rpc_client.fetch_clients_and_info: the family's clients and info, if any
fetch_clients_and_info(fam) ==
    IF ~fam.exists THEN NoCells
    ELSE [found |-> TRUE,
          clients |-> fam.clients,
          info |-> [last_id |-> fam.last_id,
                    minimal_updates_count |-> fam.minimal_updates_count]]

\* print_status_log: the on-chain part, clients sorted by id, then the info
onchain_status(cells) ==
    IF ~cells.found THEN NoneStatus
    ELSE [none |-> FALSE,
          lines |-> [i \in 1..ClientCount |-> cells.clients[i - 1]]
                      \o <<cells.info>>]

\* print_status_log: the native part, "[start_slot, end_slot]"
native_status(start_slot, end_slot) ==
    IF start_slot # NoSlot /\ end_slot # NoSlot
    THEN [none |-> FALSE, lines |-> <<start_slot, end_slot>>]
    ELSE NoneStatus

\* print_status_log: the `?` on fetch_clients_and_info and on the store reads
\* variant: absent cells are an error, as they are in update
status_read_failed_strict(queried, ledger_ok, store_ok, cells) ==
    \/ queried /\ ~ledger_ok
    \/ queried /\ ~cells.found
    \/ ~store_ok
status_read_failed(queried, ledger_ok, store_ok, cells) ==
    \/ queried /\ ~ledger_ok
    \/ ~store_ok

\* CkbChain::print_status_log for a configuration, a ledger and a store
print_status_log(type_id, ldg, st, ledger_ok, store_ok) ==
    LET queried == type_id # NoTypeId
        cells == IF queried THEN fetch_clients_and_info(ldg[type_id])
                 ELSE NoCells
    IN IF status_read_failed(queried, ledger_ok, store_ok, cells)
       THEN [NoStatusLog EXCEPT
               !.called = TRUE, !.ok = FALSE, !.queried = queried,
               !.read_failed = IF queried /\ ~ledger_ok THEN "ledger"
                               ELSE IF ~store_ok THEN "store" ELSE "none"]
       ELSE [called |-> TRUE, ok |-> TRUE, queried |-> queried,
             read_failed |-> "none",
             onchain |-> onchain_status(cells),
             native |-> native_status(get_base_beacon_header_slot(st),
                                      get_tip_beacon_header_slot(st))]

\* self.print_status_log()?: a failed report is the workflow's error
\* variant: the result of the report is dropped
status_propagated_never(ok) == FALSE
status_propagated(ok) == ~ok

\* after Confirmed: create records the minted type_id; print_status_log()?
Finish ==
    /\ pc = "confirmed"
    /\ steps' = Append(steps, "status")
    /\ config_type_id' = written_type_id(op, config_type_id, tx.type_id)
    /\ \E ledger_ok \in BOOLEAN, store_ok \in BOOLEAN :
         /\ status_log' = print_status_log(config_type_id', chain, storage,
                                           ledger_ok, store_ok)
         /\ IF ~status_propagated(status_log'.ok)
            THEN /\ result' = [kind |-> "ok", slot |-> NoSlot,
                               events |-> <<>>]
                 /\ pc' = "idle"
                 /\ past' = [past EXCEPT !.bootstrapped = @ \/ op = "create"]
                 /\ UNCHANGED <<storage, rb>>
            ELSE Fail("status", "status") /\ UNCHANGED past
    /\ UNCHANGED <<cached_onchain_packed_client, cached_network,
                   cached_tx_assembler_address, ledger, locals, pre_storage,
                   outcome, timed_out, calls, send_error, concurrent, pure,
                   tracked_msgs>>

(* ------------------------------- ledger --------------------------------- *)
\* the ledger commits a pooled transaction whose inputs are live
LedgerCommit ==
    \E t \in pool :
      /\ can_commit(t)
      /\ chain' = [chain EXCEPT ![t.type_id] = commit_family(@, t)]
      /\ pool' = pool \ {t}
      /\ committed' = committed \cup {t.hash}
      /\ UNCHANGED <<driver, chain_name, tx_count, pc, locals, history,
                     past, concurrent, pure, tracked_msgs>>

Workflow ==
    \/ CreateStart \/ CreateFetch \/ UpdateStart \/ UpdateFetch
    \/ Align \/ Verify \/ CheckSpan \/ Address \/ Assemble
    \/ Sign \/ Send \/ Poll \/ Finish

Next == Workflow \/ LedgerCommit

Spec == Init /\ [][Next]_vars

\* the runtime drives a started workflow to completion
FairInit == Init /\ chain_name = "ckb"
FairSpec == FairInit /\ [][Next]_vars /\ WF_vars(Workflow)

\* the span policies a family created by another relayer may carry
OnchainCounts == {ConfigMinimalUpdatesCount - 1, ConfigMinimalUpdatesCount + 1}

\* CkbChain::bootstrap: no type_id, or the type_id of a family whose info
\* cell holds another span policy than the configuration
PolicyInit ==
    /\ InitIdle
    /\ chain_name = "ckb"
    /\ \/ /\ config_type_id = NoTypeId
          /\ chain = [t \in TypeIds |-> NoFamily]
          /\ storage = EmptyStorage
       \/ /\ config_type_id = PreTypeId
          /\ \E m \in OnchainCounts :
               chain = [t \in TypeIds |->
                          IF t = PreTypeId
                          THEN [Family(1, 1) EXCEPT !.minimal_updates_count = m]
                          ELSE NoFamily]
          /\ storage = [base |-> 1, tip |-> 1]
PolicySpec == PolicyInit /\ [][Next]_vars

(* --------------------- send_messages_and_wait_commit -------------------- *)
\* the tracking ids a caller may pass: the two static ids of this chain,
\* another static id, a uuid
TrackingIds == {"ETH_CREATE_CLIENT", "ETH_UPDATE_CLIENT", "other", "uuid"}

\* the arm taken for a tracking id, after the messages were converted
\* variant: messages that fail to convert are skipped
dispatch_lenient(tracking_id, converted) ==
    IF tracking_id = "ETH_CREATE_CLIENT" THEN "create"
    ELSE IF tracking_id = "ETH_UPDATE_CLIENT" THEN "update"
    ELSE "unknown msg"
dispatch(tracking_id, converted) ==
    IF ~converted THEN "convert"
    ELSE IF tracking_id = "ETH_CREATE_CLIENT" THEN "create"
    ELSE IF tracking_id = "ETH_UPDATE_CLIENT" THEN "update"
    ELSE "unknown msg"

\* the updates carried by the messages: a refused call looks at none of
\* them, so one batch of every length stands for the others
MsgBatches(arm) ==
    IF arm \in {"create", "update"} THEN Batches
    ELSE {Range(1, n) : n \in 0..MaxSlot}

\* Err(Error::send_tx(text)) returned without entering a workflow
Refuse(text) ==
    /\ Begin("none", <<>>, 0)
    /\ pc' = "idle"
    /\ result' = [kind |-> "send_tx", slot |-> NoSlot, text |-> text]
    /\ UNCHANGED <<driver, ledger, past, concurrent, pure>>

\* send_messages_and_wait_commit: convert every message, then match the id
SendMessages ==
    \E tracking_id \in TrackingIds, converted \in BOOLEAN :
    \E batch \in MsgBatches(dispatch(tracking_id, converted)) :
      /\ converted \/ batch # <<>>
      /\ tracked_msgs' = [tracking_id |-> tracking_id, converted |-> converted,
                          len |-> Len(batch)]
      /\ LET arm == dispatch(tracking_id, converted) IN
         IF arm = "create" THEN create_eth_multi_client(batch)
         ELSE IF arm = "update" THEN update_eth_multi_client(batch)
         ELSE Refuse(arm)

DispatchNext ==
    \/ SendMessages
    \/ CreateFetch \/ UpdateFetch \/ Align \/ Verify \/ CheckSpan \/ Address
    \/ Assemble \/ Sign \/ Send \/ Poll \/ Finish
    \/ LedgerCommit

\* the driver as the relayer runtime uses it: through the chain endpoint, from
\* a bootstrap without a type_id (the entry does not look at the configuration)
DispatchInit == Init /\ config_type_id = NoTypeId
DispatchSpec == DispatchInit /\ [][DispatchNext]_vars

(* ------------- network() / tx_assembler_address() step by step ---------- *)
\* `if let Some(x) = cached`: is the copied cache value a hit
\* variant: the cached value is never used
is_some_never(cached, none) == FALSE
is_some(cached, none) == cached # none

\* is the read guard gone once the `let` statement that copied the cache has
\* ended: the guard is a temporary of that statement
\* variant: the guard lives on through the miss branch
guard_dropped_if_found(found) == found
guard_dropped_after_let(found) == TRUE

\* RwLock::read / RwLock::write can be acquired by thread t
can_read(lock) == lock.writer = 0
can_write(lock) == lock.writer = 0 /\ lock.readers = {}

\* a function return drops every guard the thread holds
release_all(t) ==
    [l \in DOMAIN locks |->
        [readers |-> locks[l].readers \ {t},
         writer |-> IF locks[l].writer = t THEN 0 ELSE locks[l].writer]]

\* everything but the two caches, the callers and the locks stays as it is
CacheFrame ==
    UNCHANGED <<storage, config_type_id, cached_onchain_packed_client,
                ledger, pc, locals, steps, pre_storage, result, outcome, rb,
                timed_out, send_error, status_log, tracked_msgs, pure,
                past>>

\* a thread enters network()
CallNetwork(t) ==
    /\ callers[t].pc = "idle"
    /\ calls < MaxCalls
    /\ calls' = calls + 1
    /\ callers' = [callers EXCEPT ![t] =
                     [IdleCaller EXCEPT !.pc = "n_read", !.fn = "network",
                        !.n_late = cached_network # NoNetwork]]
    /\ UNCHANGED <<cached_network, cached_tx_assembler_address, locks>>
    /\ CacheFrame

\* a thread enters tx_assembler_address()
CallAddress(t) ==
    /\ callers[t].pc = "idle"
    /\ calls < MaxCalls
    /\ calls' = calls + 1
    /\ callers' = [callers EXCEPT ![t] =
                     [IdleCaller EXCEPT !.pc = "a_read", !.fn = "address",
                        !.a_late = cached_tx_assembler_address # NoAddress]]
    /\ UNCHANGED <<cached_network, cached_tx_assembler_address, locks>>
    /\ CacheFrame

\* network() returns Ok(net): to its caller, or into tx_assembler_address()
NetworkReturns(t, net, held) ==
    IF callers[t].fn = "network"
    THEN /\ callers' = [callers EXCEPT ![t].pc = "idle", ![t].net = net,
                          ![t].ret = [kind |-> "ok", network |-> net]]
         /\ locks' = release_all(t)
    ELSE /\ callers' = [callers EXCEPT ![t].pc = "a_key", ![t].net = net]
         /\ locks' = held

\* self.cached_network.read()
NetRead(t) ==
    /\ callers[t].pc = "n_read"
    /\ can_read(locks.network)
    /\ locks' = [locks EXCEPT !.network.readers = @ \cup {t}]
    /\ callers' = [callers EXCEPT ![t].pc = "n_copy"]
    /\ UNCHANGED <<cached_network, cached_tx_assembler_address, calls>>
    /\ CacheFrame

\* the copy out of the guard, and the `if let Some(network)`
NetCopy(t) ==
    /\ callers[t].pc = "n_copy"
    /\ LET found == is_some(cached_network, NoNetwork)
           held == IF guard_dropped_after_let(found)
                   THEN [locks EXCEPT !.network.readers = @ \ {t}]
                   ELSE locks
       IN IF found
          THEN NetworkReturns(t, cached_network, held)
          ELSE /\ callers' = [callers EXCEPT ![t].pc = "n_rpc"]
               /\ locks' = held
    /\ UNCHANGED <<cached_network, cached_tx_assembler_address, calls>>
    /\ CacheFrame

\* block_on(get_blockchain_info()); a failure is Error::rpc_response
NetRpc(t) ==
    /\ callers[t].pc = "n_rpc"
    /\ \E rpc_ok \in BOOLEAN :
         IF rpc_ok
         THEN /\ callers' = [callers EXCEPT
                               ![t].pc = "n_write",
                               ![t].net = network_type(chain_name),
                               ![t].io = @ \cup {"get_blockchain_info"}]
              /\ UNCHANGED locks
         ELSE /\ callers' = [callers EXCEPT
                               ![t].pc = "idle",
                               ![t].ret = [kind |-> "rpc_response",
                                           network |-> NoNetwork],
                               ![t].io = @ \cup {"get_blockchain_info"}]
              /\ locks' = release_all(t)
    /\ UNCHANGED <<cached_network, cached_tx_assembler_address, calls>>
    /\ CacheFrame

\* self.cached_network.write()
NetWrite(t) ==
    /\ callers[t].pc = "n_write"
    /\ can_write(locks.network)
    /\ locks' = [locks EXCEPT !.network.writer = t]
    /\ callers' = [callers EXCEPT ![t].pc = "n_store"]
    /\ UNCHANGED <<cached_network, cached_tx_assembler_address, calls>>
    /\ CacheFrame

\* *guard = Some(network); the guard is dropped with the statement
NetStore(t) ==
    /\ callers[t].pc = "n_store"
    /\ cached_network' = callers[t].net
    /\ NetworkReturns(t, callers[t].net, [locks EXCEPT !.network.writer = 0])
    /\ UNCHANGED <<cached_tx_assembler_address, calls>>
    /\ CacheFrame

\* self.cached_tx_assembler_address.read()
AddrRead(t) ==
    /\ callers[t].pc = "a_read"
    /\ can_read(locks.address)
    /\ locks' = [locks EXCEPT !.address.readers = @ \cup {t}]
    /\ callers' = [callers EXCEPT ![t].pc = "a_copy"]
    /\ UNCHANGED <<cached_network, cached_tx_assembler_address, calls>>
    /\ CacheFrame

\* the clone out of the guard, and the `if let Some(address)`; a miss goes on
\* to self.network()
AddrCopy(t) ==
    /\ callers[t].pc = "a_copy"
    /\ LET found == is_some(cached_tx_assembler_address, NoAddress)
           held == IF guard_dropped_after_let(found)
                   THEN [locks EXCEPT !.address.readers = @ \ {t}]
                   ELSE locks
       IN IF found
          THEN /\ callers' = [callers EXCEPT
                                ![t].pc = "idle",
                                ![t].ret =
                                  [kind |-> "ok",
                                   network |-> cached_tx_assembler_address.network]]
               /\ locks' = release_all(t)
          ELSE /\ callers' = [callers EXCEPT
                                ![t].pc = "n_read",
                                ![t].n_late = cached_network # NoNetwork]
               /\ locks' = held
    /\ UNCHANGED <<cached_network, cached_tx_assembler_address, calls>>
    /\ CacheFrame

\* keybase.get_key(key_name); a failure is Error::key_base
AddrKey(t) ==
    /\ callers[t].pc = "a_key"
    /\ \E key_ok \in BOOLEAN :
         IF key_ok
         THEN /\ callers' = [callers EXCEPT ![t].pc = "a_write",
                                             ![t].io = @ \cup {"get_key"}]
              /\ UNCHANGED locks
         ELSE /\ callers' = [callers EXCEPT
                               ![t].pc = "idle",
                               ![t].ret = [kind |-> "key_base",
                                           network |-> NoNetwork],
                               ![t].io = @ \cup {"get_key"}]
              /\ locks' = release_all(t)
    /\ UNCHANGED <<cached_network, cached_tx_assembler_address, calls>>
    /\ CacheFrame

\* self.cached_tx_assembler_address.write()
AddrWrite(t) ==
    /\ callers[t].pc = "a_write"
    /\ can_write(locks.address)
    /\ locks' = [locks EXCEPT !.address.writer = t]
    /\ callers' = [callers EXCEPT ![t].pc = "a_store"]
    /\ UNCHANGED <<cached_network, cached_tx_assembler_address, calls>>
    /\ CacheFrame

\* *guard = Some(address.clone()); then Ok(address)
AddrStore(t) ==
    /\ callers[t].pc = "a_store"
    /\ cached_tx_assembler_address' = address_of(callers[t].net)
    /\ callers' = [callers EXCEPT
                     ![t].pc = "idle",
                     ![t].ret = [kind |-> "ok", network |-> callers[t].net]]
    /\ locks' = release_all(t)
    /\ UNCHANGED <<cached_network, calls>>
    /\ CacheFrame

\* a thread that is inside a call takes its next step
CacheStep(t) ==
    \/ NetRead(t) \/ NetCopy(t) \/ NetRpc(t) \/ NetWrite(t) \/ NetStore(t)
    \/ AddrRead(t) \/ AddrCopy(t) \/ AddrKey(t) \/ AddrWrite(t) \/ AddrStore(t)

CacheNext == \E t \in Threads : CallNetwork(t) \/ CallAddress(t) \/ CacheStep(t)

\* a freshly bootstrapped driver shared by the threads, on any node
CacheInit ==
    /\ InitIdle
    /\ chain_name \in ChainNames
    /\ config_type_id = NoTypeId
    /\ chain = [t \in TypeIds |-> NoFamily]
    /\ storage = EmptyStorage
CacheSpec == CacheInit /\ [][CacheNext]_vars

\* every thread inside a call is scheduled again (one chain name is enough
\* for that)
CacheFairInit == CacheInit /\ chain_name = "ckb"
CacheFairSpec ==
    /\ CacheFairInit /\ [][CacheNext]_vars
    /\ \A t \in Threads : WF_vars(CacheStep(t))

(* ---------------- the Local Proof Store under the checkpoint ------------- *)
\* the windows a store may hold
Windows ==
    {EmptyStorage} \cup
    {w \in [base : Slots, tip : Slots] : w.base <= w.tip}

\* everything but the store, the checkpoint and their history stays as it is
StoreFrame ==
    UNCHANGED <<config_type_id, cached_onchain_packed_client, cached_network,
                cached_tx_assembler_address, ledger, op, update_cells,
                minimal_updates_count, new_client, updated_client, tx, signed,
                time_used, result, outcome, timed_out, send_error, status_log,
                past, concurrent, pure, tracked_msgs>>

\* the Verifier Adapter hands out the tip as checkpoint and appends what it
\* verified, which may be nothing
StoreAppend ==
    /\ pc = "idle"
    /\ calls < MaxCalls
    /\ calls' = calls + 1
    /\ \E batch \in Batches :
         /\ batch # <<>> => verify_can_succeed(batch, storage)
         /\ header_updates' = batch
         /\ storage' = IF batch = <<>> THEN storage ELSE append(storage, batch)
    /\ prev_slot_opt' = get_tip_beacon_header_slot(storage)
    /\ pre_storage' = storage
    /\ steps' = <<"verify">>
    /\ rb' = NoRollback
    /\ pc' = "check"
    /\ StoreFrame

\* the workflow failed: self.storage.rollback_to(prev_slot_opt)
StoreRollback ==
    /\ pc = "check"
    /\ storage' = rollback_to(storage, rollback_arg(prev_slot_opt))
    /\ rb' = [site |-> "check", orig |-> "not_enough_updates", ok |-> TRUE,
              to |-> rollback_arg(prev_slot_opt)]
    /\ steps' = Append(steps, "rollback")
    /\ pc' = "idle"
    /\ UNCHANGED <<header_updates, prev_slot_opt, pre_storage, calls>>
    /\ StoreFrame

\* the workflow succeeded: the checkpoint is discarded
StoreKeep ==
    /\ pc = "check"
    /\ pc' = "idle"
    /\ UNCHANGED <<storage, header_updates, prev_slot_opt, pre_storage, steps,
                   rb, calls>>
    /\ StoreFrame

\* Storage::rollback_to on any checkpoint
StoreRollbackTo ==
    /\ pc = "idle"
    /\ calls < MaxCalls
    /\ calls' = calls + 1
    /\ \E slot \in Slots \cup {NoSlot} :
         /\ storage' = rollback_to(storage, slot)
         /\ rb' = [site |-> "store", orig |-> "none", ok |-> TRUE, to |-> slot]
    /\ pre_storage' = storage
    /\ steps' = <<"rollback">>
    /\ UNCHANGED <<pc, header_updates, prev_slot_opt>>
    /\ StoreFrame

StoreNext == StoreAppend \/ StoreRollback \/ StoreKeep \/ StoreRollbackTo

\* a driver opened on a store that holds any window
StoreInit ==
    /\ InitIdle
    /\ chain_name = "ckb"
    /\ config_type_id = NoTypeId
    /\ chain = [t \in TypeIds |-> NoFamily]
    /\ storage \in Windows
StoreSpec == StoreInit /\ [][StoreNext]_vars

(* ------------------------ the status reporter alone --------------------- *)
\* self.print_status_log() on a driver at rest
PrintStatusLog ==
    /\ pc = "idle"
    /\ calls < MaxCalls
    /\ calls' = calls + 1
    /\ \E ledger_ok \in BOOLEAN, store_ok \in BOOLEAN :
         status_log' = print_status_log(config_type_id, chain, storage,
                                        ledger_ok, store_ok)
    /\ UNCHANGED <<driver, ledger, pc, locals, steps, pre_storage, result,
                   outcome, rb, timed_out, send_error, past, concurrent, pure,
                   tracked_msgs>>

\* a driver whose configuration may name a family, on a ledger that may hold
\* one, with a store that holds any window
StatusInit ==
    /\ InitIdle
    /\ chain_name = "ckb"
    /\ config_type_id \in {NoTypeId, PreTypeId}
    /\ chain \in {[t \in TypeIds |-> NoFamily]} \cup
                 {[t \in TypeIds |-> IF t = PreTypeId THEN Family(w.base, w.tip)
                                     ELSE NoFamily] : w \in Windows \ {EmptyStorage}}
    /\ storage \in Windows
StatusSpec == StatusInit /\ [][PrintStatusLog]_vars

(* ---------------------- AnyClientState <-> protobuf Any ------------------ *)
TENDERMINT_CLIENT_STATE_TYPE_URL == "/ibc.lightclients.tendermint.v1.ClientState"
ETH_CLIENT_STATE_TYPE_URL == "ETH_CLIENT_STATE_TYPE_URL"
CKB_CLIENT_STATE_TYPE_URL == "CKB_CLIENT_STATE_TYPE_URL"

\* the client states: a Tendermint state with its latest height and optional
\* frozen height, and the other variants with a payload
ClientStates ==
    {[variant |-> "Tendermint", latest_height |-> l, frozen_height |-> f] :
        l \in Slots, f \in Slots \cup {NoSlot}}
    \cup {[variant |-> v, latest_height |-> l, frozen_height |-> NoSlot] :
            v \in {"Eth", "Ckb", "Axon"}, l \in Slots}

\* the received Anys: a type url and a byte string
Anys ==
    LET Bytes == {<<>>} \cup {<<a>> : a \in 0..MaxSlot}
                   \cup {<<a, b>> : a \in 0..MaxSlot, b \in 0..MaxSlot}
    IN [type_url : {"", TENDERMINT_CLIENT_STATE_TYPE_URL,
                    ETH_CLIENT_STATE_TYPE_URL, CKB_CLIENT_STATE_TYPE_URL,
                    "/other"},
        value : Bytes]

\* Protobuf::<RawClientState>::encode_vec: the raw state has a frozen height
\* of 0 for "not frozen"
encode_vec(cs) ==
    <<cs.latest_height, IF cs.frozen_height = NoSlot THEN 0 ELSE cs.frozen_height>>

\* Protobuf::<RawClientState>::decode_vec: fails on bytes that are no raw
\* state or that lack a latest height
decode_vec(bytes) ==
    IF Len(bytes) = 2 /\ bytes[1] >= 1
    THEN [ok |-> TRUE,
          state |-> [variant |-> "Tendermint", latest_height |-> bytes[1],
                     frozen_height |-> IF bytes[2] = 0 THEN NoSlot ELSE bytes[2]]]
    ELSE [ok |-> FALSE, state |-> NoClientState]

\* serde_json::to_string(&value).into_bytes()
json_bytes(cs) == <<cs.latest_height>>

\* From<AnyClientState> for Any: the type_url written for a variant
\* variant: a Tendermint state is tagged with the Eth type_url
type_url_of_mistagged(variant) ==
    IF variant = "Ckb" THEN CKB_CLIENT_STATE_TYPE_URL
    ELSE ETH_CLIENT_STATE_TYPE_URL
type_url_of(variant) ==
    IF variant = "Tendermint" THEN TENDERMINT_CLIENT_STATE_TYPE_URL
    ELSE IF variant = "Eth" THEN ETH_CLIENT_STATE_TYPE_URL
    ELSE CKB_CLIENT_STATE_TYPE_URL

\* From<AnyClientState> for Any (Axon is todo!() and has no result)
any_from(cs) ==
    [type_url |-> type_url_of(cs.variant),
     value |-> IF cs.variant = "Tendermint" THEN encode_vec(cs)
               ELSE json_bytes(cs)]

\* TryFrom<Any> for AnyClientState
try_from(raw) ==
    IF raw.type_url = ""
    THEN [NoBack EXCEPT !.kind = "empty_client_state_response"]
    ELSE IF raw.type_url = TENDERMINT_CLIENT_STATE_TYPE_URL
    THEN IF decode_vec(raw.value).ok
         THEN [NoBack EXCEPT !.kind = "ok", !.state = decode_vec(raw.value).state]
         ELSE [NoBack EXCEPT !.kind = "decode_raw_client_state"]
    ELSE [NoBack EXCEPT !.kind = "unknown_client_state_type",
                        !.type_url = raw.type_url]

\* let raw: Any = client_state.into()
Encode ==
    /\ \E cs \in ClientStates :
         conv' = IF cs.variant = "Axon"
                 THEN [NoConv EXCEPT !.op = "panic", !.client_state = cs]
                 ELSE [NoConv EXCEPT !.op = "encode", !.client_state = cs,
                                     !.raw = any_from(cs)]
    /\ UNCHANGED <<driver, ledger, pc, locals, history, past, concurrent,
                   tracked_msgs, shape, clients_reply, span_check>>

\* AnyClientState::try_from(raw) on what was just encoded
DecodeBack ==
    /\ conv.op = "encode"
    /\ conv' = [conv EXCEPT !.op = "decode", !.back = try_from(conv.raw)]
    /\ UNCHANGED <<driver, ledger, pc, locals, history, past, concurrent,
                   tracked_msgs, shape, clients_reply, span_check>>

\* AnyClientState::try_from(raw) on an Any received from elsewhere
DecodeAny ==
    /\ \E raw \in Anys :
         conv' = [NoConv EXCEPT !.op = "decode", !.raw = raw,
                                !.back = try_from(raw)]
    /\ UNCHANGED <<driver, ledger, pc, locals, history, past, concurrent,
                   tracked_msgs, shape, clients_reply, span_check>>

AnyNext == Encode \/ DecodeBack \/ DecodeAny
\* the conversions do not touch the driver: any driver at rest will do
AnyInit == CacheInit /\ chain_name = "ckb"
AnySpec == AnyInit /\ [][AnyNext]_vars

(* ------------- get_new_client_and_proof: the span arithmetic ------------ *)
\* `minimal_updates_count as u64`: a zero extension
\* variant: the byte is sign-extended
widen_sign_extended(m) ==
    LET U8Modulus == SlotModulus \div 4
    IN IF 2 * m >= U8Modulus THEN SlotModulus - (U8Modulus - m) ELSE m
widen(m) == m

\* maximal_slot - minimal_slot + 1 < minimal_updates_count as u64, in a build
\* with overflow checks (the arithmetic panics) or without (it wraps); u64 is
\* scaled to SlotModulus values
span_test(minimal_slot, maximal_slot, muc, overflow_checks) ==
    LET u64_sub(a, b) ==
            [value |-> (a - b) % SlotModulus, overflow |-> a < b]
        u64_add(a, b) ==
            [value |-> (a + b) % SlotModulus, overflow |-> a + b >= SlotModulus]
        difference == u64_sub(maximal_slot, minimal_slot)
        sum == u64_add(difference.value, 1)
    IN [asked |-> TRUE, minimal_slot |-> minimal_slot,
        maximal_slot |-> maximal_slot, minimal_updates_count |-> muc,
        underflow |-> difference.overflow,
        overflow |-> ~difference.overflow /\ sum.overflow,
        outcome |-> IF overflow_checks /\ (difference.overflow \/ sum.overflow)
                    THEN "panic"
                    ELSE IF sum.value < widen(muc) THEN "rejected"
                    ELSE "accepted"]

\* the span test on any record a verifier could hand back, with any u8 count
\* (u8 is scaled as u64 is, to SlotModulus \div 4 values)
SpanTest ==
    /\ \E minimal_slot \in 0..(SlotModulus - 1),
          maximal_slot \in 0..(SlotModulus - 1),
          muc \in 0..(SlotModulus \div 4 - 1), overflow_checks \in BOOLEAN :
         span_check' = span_test(minimal_slot, maximal_slot, muc,
                                 overflow_checks)
    /\ UNCHANGED <<driver, ledger, pc, locals, history, past, concurrent,
                   tracked_msgs, conv, shape, clients_reply>>

\* the arithmetic does not look at the driver: any driver at rest will do
SpanSpec == AnyInit /\ [][SpanTest]_vars

(* ----------------------------- query_clients --------------------------- *)
\* CkbChain::query_clients: one Ckb client state when the on-chain client is
\* cached, else nothing
\* variant: the configured type_id decides, not the cache
query_clients_by_type_id(cached, type_id) ==
    IF type_id # NoTypeId
    THEN <<[client_id |-> "default", client_state |-> "Ckb"]>>
    ELSE <<>>
query_clients(cached, type_id) ==
    IF cached # NoClient
    THEN <<[client_id |-> "default", client_state |-> "Ckb"]>>
    ELSE <<>>

\* self.query_clients(request) between two workflows
QueryClients ==
    /\ pc = "idle"
    /\ clients_reply' =
         [asked |-> TRUE,
          clients |-> query_clients(cached_onchain_packed_client,
                                    config_type_id)]
    /\ UNCHANGED <<driver, ledger, pc, locals, history, past, concurrent,
                   tracked_msgs, conv, shape, span_check>>

QueryNext == Next \/ QueryClients
QuerySpec == Init /\ [][QueryNext]_vars

(* --------------- create_eth_multi_client: the cell layout --------------- *)
\* the records the Verifier Adapter may hand to create: any id, any window
PackedClients ==
    {Client(i, w.base, w.tip) : i \in 0..CellsCount, w \in Windows \ {EmptyStorage}}

\* everything but the layout, the store and the call counter stays as it is
ShapeFrame ==
    UNCHANGED <<config_type_id, cached_onchain_packed_client, cached_network,
                cached_tx_assembler_address, ledger, pc, locals, steps,
                pre_storage, result, outcome, rb, timed_out, send_error,
                status_log, past, concurrent, tracked_msgs,
                conv, clients_reply, span_check>>

\* entry of create for a configured cells_count: a configured type_id leads
\* to the existence check; else checked_sub(1).expect("invalid cells_count")
ShapeCreate ==
    /\ shape.pc \in {"idle", "c_fetch", "panicked", "failed", "assemble"}
    /\ calls < MaxCalls
    /\ calls' = calls + 1
    /\ \E cells_count \in 0..CellsCount, muc \in 0..ConfigMinimalUpdatesCount :
         LET client_count == checked_sub(cells_count, 1) IN
         shape' = [NoShape EXCEPT
                     !.cells_count = cells_count,
                     !.minimal_updates_count = muc,
                     !.client_count =
                         IF create_entry(config_type_id) = "align"
                         THEN client_count ELSE -1,
                     !.pc = IF create_entry(config_type_id) # "align"
                            THEN "c_fetch"
                            ELSE IF client_count = -1 THEN "panicked"
                            ELSE "get_new_client_and_proof"]
    /\ UNCHANGED storage
    /\ ShapeFrame

\* get_new_client_and_proof(...)?: alignment, then the Verifier Adapter, which
\* appends what it verified
ShapeVerify ==
    /\ shape.pc = "get_new_client_and_proof"
    /\ \/ \E batch \in Batches, packed_client \in PackedClients :
            /\ verify_can_succeed(batch, storage)
            /\ storage' = append(storage, batch)
            /\ packed_client.maximal_slot = storage'.tip
            /\ packed_client.minimal_slot \in {storage'.base, batch[1]}
            /\ shape' = [shape EXCEPT !.pc = "build",
                                      !.packed_client = packed_client,
                                      !.steps = <<"align", "verify">>]
       \/ /\ shape' = [shape EXCEPT !.pc = "failed", !.steps = <<"align">>]
          /\ UNCHANGED storage
    /\ UNCHANGED calls
    /\ ShapeFrame

\* the clients and the ClientInfo handed to the assembler
ShapeBuild ==
    /\ shape.pc = "build"
    /\ shape' = [shape EXCEPT
                   !.pc = "assemble",
                   !.clients = create_clients_for(shape.packed_client,
                                                  shape.client_count),
                   !.client_info =
                       create_client_info(shape.minimal_updates_count)]
    /\ UNCHANGED <<storage, calls>>
    /\ ShapeFrame

ShapeNext == ShapeCreate \/ ShapeVerify \/ ShapeBuild

\* a driver at rest, with or without a configured type_id
ShapeInit ==
    /\ InitIdle
    /\ chain_name = "ckb"
    /\ config_type_id \in {NoTypeId, PreTypeId}
    /\ chain = [t \in TypeIds |-> NoFamily]
    /\ storage = EmptyStorage
ShapeSpec == ShapeInit /\ [][ShapeNext]_vars

(* ======================================================================= *)
(*                               Properties                                *)
(* ======================================================================= *)
Returned == pc = "idle" /\ result.kind # "none"
Verified == new_client # NoClient
LatestOf(fam) == fam.clients[fam.last_id]
Has(step) == \E i \in DOMAIN steps : steps[i] = step

\* C1: if a workflow fails at any step after the Verifier Adapter returned its
\* checkpoint, the store is rolled back to that checkpoint before the error is
\* returned (a rollback_to(checkpoint) is performed whenever the call verified
\* and its transaction was not Confirmed).
C1_RollbackAfterCheckpoint ==
    (Returned /\ Verified /\ outcome # "Confirmed")
        => (rb.site # "none" /\ rb.to = prev_slot_opt)

C3_NeverDiverges ==
    (Returned /\ tx # NoTx /\ tx.hash \in committed /\ rb.ok)
        => storage.tip = LatestOf(chain[tx.type_id]).maximal_slot

\* C3 (amended): when a workflow returns after its transaction was Confirmed,
\* the store's tip equals the maximal slot of the client record that
\* transaction wrote, which is the on-chain latest client of its family.
C3_ConfirmedMatchesChain ==
    (Returned /\ outcome = "Confirmed")
        => /\ tx.hash \in committed
           /\ chain[tx.type_id].exists
           /\ LatestOf(chain[tx.type_id]) = tx.clients[tx.info.last_id]
           /\ storage.tip = LatestOf(chain[tx.type_id]).maximal_slot
           /\ storage.tip = new_client.maximal_slot

\* a confirmed update has returned
C3_Witness ==
    /\ Returned /\ outcome = "Confirmed" /\ op = "update"
    /\ storage.tip > pre_storage.tip

\* the claim's own arithmetic: maximal_slot - minimal_slot + 1 < minimal_updates_count
SpanBelow(client, muc) == client.maximal_slot - client.minimal_slot + 1 < muc
NoSubmission == ~Has("assemble") /\ ~Has("sign") /\ ~Has("broadcast") /\ tx = NoTx

\* C4 (as claimed): a verified candidate whose span is below
\* minimal_updates_count makes the workflow roll back, return the "not enough
\* updates" error and never assemble, sign or broadcast; a span of exactly
\* minimal_updates_count is accepted.
C4_MinimalSpanEnforced ==
    (Verified /\ pc # "check")
        => IF SpanBelow(new_client, minimal_updates_count)
           THEN /\ pc = "idle"
                /\ result.kind = "not_enough_updates"
                /\ storage = pre_storage
                /\ NoSubmission
           ELSE rb.site # "check" /\ result.kind # "not_enough_updates"

\* C4 (amended): such a candidate makes the workflow call rollback_to with the
\* checkpoint and return without assembling, signing or broadcasting; the
\* error is "not enough updates" with the store back at the checkpoint when
\* the rollback succeeds, and the storage error when the rollback fails; a
\* span of exactly minimal_updates_count is accepted.
C4_MinimalSpanEnforcedOrStorageError ==
    (Verified /\ pc # "check")
        => IF SpanBelow(new_client, minimal_updates_count)
           THEN /\ pc = "idle"
                /\ rb.site = "check" /\ rb.to = prev_slot_opt
                /\ result.kind = IF rb.ok THEN "not_enough_updates"
                                 ELSE "storage"
                /\ rb.ok => storage = pre_storage
                /\ NoSubmission
           ELSE rb.site # "check" /\ result.kind # "not_enough_updates"

\* a candidate one slot short was rejected and the store restored
C4_Witness ==
    /\ Returned /\ Verified /\ result.kind = "not_enough_updates"
    /\ new_client.maximal_slot - new_client.minimal_slot + 1
         = minimal_updates_count - 1
    /\ storage = pre_storage /\ pre_storage.tip # NoSlot

\* C5, state part: the record handed to the assembler is the verified record
\* with the id of the oldest cell fetched in this call, and the new info
\* cell's last_id is that id
C5_Retagged ==
    (op = "update" /\ updated_client # NoClient)
        => /\ update_cells.found
           /\ updated_client = [new_client EXCEPT !.id = update_cells.oldest.id]
           /\ tx # NoTx =>
                /\ DOMAIN tx.clients = {update_cells.oldest.id}
                /\ tx.clients[update_cells.oldest.id] = updated_client
                /\ tx.info.last_id = update_cells.oldest.id

\* C5, step part: committing an update rewrites only the slot it names
C5_OnlyOldestRewritten ==
    \A t \in pool :
      (t.kind = "update" /\ t.hash \in committed' /\ t.hash \notin committed)
        => /\ chain'[t.type_id].last_id = t.info.last_id
           /\ \A i \in DOMAIN chain[t.type_id].clients :
                chain'[t.type_id].clients[i] =
                  IF i = t.info.last_id THEN t.clients[i]
                  ELSE chain[t.type_id].clients[i]

\* C5: an update rewrites exactly the slot named `oldest` in the UpdateCells it
\* fetched, the new ClientInfo.last_id is that slot's id, and the other
\* client slots are not rewritten.
C5_RingBufferOverwrite == []C5_Retagged /\ [][C5_OnlyOldestRewritten]_vars

\* an update that re-tagged to a non-zero oldest id was committed
C5_Witness ==
    /\ op = "update" /\ tx # NoTx /\ tx.hash \in committed
    /\ update_cells.oldest.id = 1 /\ update_cells.latest.id = 0
    /\ chain[tx.type_id].last_id = 1

\* C6, step part: the existence check of create, when the cells are found
C6_AlreadyExistsStep ==
    /\ (pc = "idle" /\ op' = "create" /\ calls' # calls
           /\ config_type_id # NoTypeId) => pc' = "c_fetch"
    /\ (pc = "c_fetch" /\ pc' # "c_fetch" /\ chain[config_type_id].exists
           /\ result'.kind # "rpc")
        => /\ pc' = "idle"
           /\ result' = [kind |-> "already_exists",
                         slot |-> chain[config_type_id]
                                    .clients[chain[config_type_id].last_id]
                                    .minimal_slot]
           /\ steps' = <<"fetch">>
           /\ storage' = storage /\ header_updates' = header_updates
           /\ pool' = pool /\ tx' = NoTx /\ new_client' = NoClient

\* C6: create with a configured type_id whose cells are found returns "already
\* exists at slot N", N the minimal_slot of the on-chain latest client, with
\* no alignment, verification, store mutation, assembly or broadcast.
C6_BootstrapUniqueness ==
    /\ [][C6_AlreadyExistsStep]_vars
    /\ []((op = "create" /\ pc \notin {"idle", "c_fetch"} /\ outcome = "none")
            => config_type_id = NoTypeId)

\* create was refused on a family whose latest client spans more than a slot
C6_Witness ==
    /\ Returned /\ op = "create" /\ result.kind = "already_exists"
    /\ result.slot = cached_onchain_packed_client.minimal_slot
    /\ cached_onchain_packed_client.maximal_slot > result.slot
    /\ storage = pre_storage

\* the order in which the steps of one workflow may occur
StepRank(step) ==
    CASE step = "fetch" -> 1
      [] step = "align" -> 2
      [] step = "verify" -> 3
      [] step = "rollback" -> 4
      [] step = "address" -> 5
      [] step = "assemble" -> 6
      [] step = "sign" -> 7
      [] step = "broadcast" -> 8
      [] step = "poll" -> 9
      [] step = "status" -> 10

\* C7, state part: order, at-most-once, and the end state of the attempt
C7_Ordered ==
    /\ \A i, j \in DOMAIN steps : i < j => StepRank(steps[i]) < StepRank(steps[j])
    /\ Has("broadcast") => (Has("sign") /\ signed)
    /\ Has("poll") => (Has("broadcast") /\ (tx \in pool \/ tx.hash \in committed))
    /\ pc = "poll" => (Has("broadcast") /\ (tx \in pool \/ tx.hash \in committed))
    /\ (Returned /\ Has("sign")) =>
         /\ outcome \in {"Confirmed", "TimedOut", "Rejected", "SignFailed"}
         /\ outcome = "SignFailed" <=> ~Has("broadcast")
         /\ outcome = "Rejected" <=> (Has("broadcast") /\ ~Has("poll"))
         /\ outcome = "Confirmed" <=> Has("status")
         /\ outcome = "TimedOut" <=> (Has("poll") /\ ~Has("status"))
    /\ ~Has("sign") => outcome = "none"

\* C7, step part: a transaction enters the pool only from the send step of a
\* signed transaction, and an attempt's end state never changes
C7_Steps ==
    /\ pool' \ pool # {} => (pc = "send" /\ signed /\ pool' \ pool = {tx})
    /\ (outcome # "none" /\ calls' = calls) => outcome' = outcome

\* C7: the steps of a workflow occur in the order fetch, align/verify,
\* assemble, sign, broadcast, poll, each at most once; no broadcast unless
\* signing succeeded, no polling unless broadcast succeeded, and an attempt
\* ends in exactly one of Confirmed, TimedOut, Rejected or a signing failure.
C7_StepOrdering == []C7_Ordered /\ [][C7_Steps]_vars

\* an update ran every step, in order, to a confirmed transaction
C7_Witness ==
    /\ Returned /\ result.kind = "ok"
    /\ steps = <<"fetch", "align", "verify", "address", "assemble", "sign",
                 "broadcast", "poll", "status">>

\* C8, state part: polling happens every 3 s within the 60 s deadline, and
\* never for a transaction whose wait already timed out
C8_Bounded ==
    pc = "poll" => /\ time_used <= 60
                   /\ time_used % 3 = 0
                   /\ tx.hash \notin timed_out

\* C8, step part: a status query that sees the commit ends in Confirmed at
\* once; TimedOut comes only when the deadline is exhausted, as an error
C8_Steps ==
    /\ (pc = "poll" /\ (time_used' # time_used \/ pc' # "poll")
           /\ outcome' # "TimedOut") =>
         /\ time_used < 60
         /\ IF tx.hash \in committed
            THEN pc' = "confirmed" /\ outcome' = "Confirmed"
            ELSE pc' = "poll" /\ outcome' = "none"
                 /\ time_used' = time_used + 3
    /\ (outcome' = "TimedOut" /\ outcome # "TimedOut") =>
         /\ pc = "poll" /\ time_used = 60
         /\ pc' = "idle" /\ result'.kind \in {"timeout", "storage"}

\* C8: after a successful broadcast the status is polled every 3 s for at
\* most 60 s; every attempt terminates, in Confirmed as soon as a committed
\* status is seen, otherwise in TimedOut after a bounded number of polls, and
\* a timed-out transaction is never queried again.
C8_BoundedConfirmation ==
    /\ []C8_Bounded
    /\ [][C8_Steps]_vars
    /\ (pc = "poll") ~> (pc # "poll" /\ outcome \in {"Confirmed", "TimedOut"})

\* a wait that used up the whole deadline and ended in TimedOut
C8_Witness ==
    /\ Returned /\ outcome = "TimedOut" /\ time_used = 60
    /\ tx.hash \in timed_out /\ Has("poll")

\* C9: a workflow that returns a Configuration or KeyAccess error has not
\* mutated the store before the error, so the store is as before the call
\* and no rollback was needed.
C9_NoMutationBeforeConfigOrKeyError ==
    (Returned /\ result.kind \in {"no_type_id", "no_cells",
                                  "no_cells_for_config", "key_base"})
        => (~Verified /\ rb.site = "none" /\ storage = pre_storage)

\* the error each rollback site starts from
SiteErrors(site) ==
    CASE site = "check" -> {"not_enough_updates"}
      [] site = "sign" -> {"key_base", "rpc_response"}
      [] site = "send" -> {"send_tx"}
      [] site = "poll" -> {"timeout"}
      [] OTHER -> {}

\* C10: at every rollback site (insufficient-updates check, failed create
\* submission, failed update submission) a failed rollback makes the workflow
\* return the storage error instead of the original error, and a successful
\* rollback leaves the original error unchanged.
C10_RollbackFailurePrecedence ==
    (Returned /\ rb.site # "none")
        => /\ rb.orig \in SiteErrors(rb.site)
           /\ rb.to = prev_slot_opt
           /\ result.kind = IF rb.ok THEN rb.orig ELSE "storage"

\* a rejected broadcast of an update whose rollback failed
C10_Witness ==
    /\ Returned /\ op = "update" /\ rb.site = "send" /\ ~rb.ok
    /\ rb.orig = "send_tx" /\ result.kind = "storage"

\* the error built by a failed broadcast: a send_tx error whose text is the
\* transport's message, then the pool-diagnostic fragment, then the transaction
SubmissionError ==
    /\ send_error.kind = "send_tx"
    /\ Len(send_error.text) = 3
    /\ send_error.text[1] \in {"duplicate", "rejected"}
    /\ send_error.text[2] = IF send_error.diag = "ok" THEN "pool_info" ELSE ""
    /\ send_error.diag = "ok" => send_error.text[1] = "duplicate"
    /\ send_error.text[3] = tx.hash
    /\ tx \notin pool /\ tx.hash \notin committed

FailedBroadcast == Returned /\ Has("broadcast") /\ ~Has("poll")

\* C11 (as claimed): every failed broadcast makes the workflow return the
\* send_tx error whose text holds the transport's message followed by the
\* pool-diagnostic fragment, whatever the diagnostic query did, with the store
\* rolled back to the checkpoint.
C11_BroadcastFailure ==
    FailedBroadcast
        => /\ SubmissionError
           /\ result.kind = "send_tx"
           /\ storage = pre_storage

\* C11 (amended): every failed broadcast ends the submission attempt in the
\* send_tx error with that text, whatever the diagnostic query did, and
\* rollback_to is called with the checkpoint; the workflow returns that
\* send_tx error with the store back at the checkpoint when the rollback
\* succeeds, and the storage error when the rollback fails; it never succeeds.
C11_BroadcastFailureOrStorageError ==
    FailedBroadcast
        => /\ SubmissionError
           /\ outcome = "Rejected"
           /\ rb.site = "send" /\ rb.to = prev_slot_opt
           /\ rb.orig = send_error.kind
           /\ result.kind = IF rb.ok THEN "send_tx" ELSE "storage"
           /\ rb.ok => storage = pre_storage

\* a duplicate-transaction failure whose diagnostic query failed: still the
\* send_tx error, the store rolled back over the appended slots
C11_Witness ==
    /\ FailedBroadcast /\ result.kind = "send_tx"
    /\ send_error.text[1] = "duplicate" /\ send_error.diag = "failed"
    /\ new_client.maximal_slot > pre_storage.tip /\ storage = pre_storage

Count(step) == Cardinality({i \in DOMAIN steps : steps[i] = step})

\* C12, state part: one invocation verifies, signs and broadcasts at most once
C12_AtMostOnce ==
    /\ Count("verify") <= 1 /\ Count("sign") <= 1 /\ Count("broadcast") <= 1
    /\ (Returned /\ result.kind # "ok") => pc = "idle"

\* C12, step part: a step that fails returns at once, a returned call runs no
\* further step, and an invocation never sends a second transaction
C12_NoReattempt ==
    /\ (result.kind = "running" /\ result'.kind \notin {"running", "ok"})
         => pc' = "idle"
    /\ (pc = "idle" /\ calls' = calls)
         => (steps' = steps /\ tx_count' = tx_count /\ storage' = storage)
    /\ calls' = calls
         => /\ Len(steps') >= Len(steps)
            /\ \A i \in DOMAIN steps : steps'[i] = steps[i]
    /\ tx_count' # tx_count
         => (tx_count' = tx_count + 1 /\ ~Has("broadcast") /\ calls' = calls)

\* C12: in one create/update invocation the verification, signing and
\* broadcast steps are each invoked at most once, and after any failure the
\* call returns without attempting any step again.
C12_NoRetries == []C12_AtMostOnce /\ [][C12_NoReattempt]_vars

\* a call that verified and signed once, whose only broadcast failed
C12_Witness ==
    /\ Returned /\ outcome = "Rejected" /\ result.kind = "send_tx"
    /\ Count("verify") = 1 /\ Count("sign") = 1 /\ Count("broadcast") = 1
    /\ steps[Len(steps)] = "broadcast"

\* a create call that found no type_id configured and returned an error
FailedBootstrap == Returned /\ op = "create" /\ result.kind # "ok" /\ ~Has("fetch")

\* C13, step part: the only change of the type_id is absent -> minted, made by
\* a create whose transaction is Confirmed
C13_OnlyMinted ==
    config_type_id' # config_type_id
        => /\ config_type_id = NoTypeId
           /\ op = "create" /\ outcome = "Confirmed" /\ tx.hash \in committed
           /\ config_type_id' = tx.type_id
           /\ chain[tx.type_id].exists

\* C13, state part: update works on the configured family, and a type_id
\* minted by this driver names a family that exists
C13_UpdatesUseIt ==
    /\ (op = "update" /\ tx # NoTx) => tx.type_id = config_type_id
    /\ config_type_id \notin {NoTypeId, PreTypeId} => chain[config_type_id].exists

\* C13 (as claimed): the type_id changes only from absent to the minted
\* type_id, only when a create's transaction is Confirmed; a create that
\* fails at any step leaves it absent; update never changes it; once set it
\* never changes.
C13_TypeIdPersistence ==
    /\ [][C13_OnlyMinted]_vars
    /\ []C13_UpdatesUseIt
    /\ [](FailedBootstrap => config_type_id = NoTypeId)

\* C13 (amended): as claimed, except that a failed create leaves the type_id
\* absent only when its transaction was not Confirmed: a create whose
\* transaction was Confirmed has recorded the minted type_id, also when it
\* then returns the error of the status report.
C13_TypeIdSetOnConfirmed ==
    /\ [][C13_OnlyMinted]_vars
    /\ []C13_UpdatesUseIt
    /\ []((FailedBootstrap /\ outcome # "Confirmed") => config_type_id = NoTypeId)
    /\ []((Returned /\ op = "create" /\ outcome = "Confirmed")
             => config_type_id = tx.type_id)

\* an update sent on the family minted by an earlier create of this driver
C13_Witness ==
    /\ op = "update" /\ tx # NoTx /\ tx.type_id = config_type_id
    /\ config_type_id \notin {NoTypeId, PreTypeId}

\* C14, state part: a value returned successfully is the cached one, and a
\* call that began with the cache filled returns it without any lookup
C14_Memoized ==
    \A t \in Threads :
      LET c == callers[t] IN
      /\ (c.fn = "network" /\ c.ret.kind = "ok")
           => cached_network = c.ret.network
      /\ (c.fn = "address" /\ c.ret.kind = "ok")
           => cached_tx_assembler_address = address_of(c.ret.network)
      /\ c.n_late => "get_blockchain_info" \notin c.io
      /\ c.a_late => c.io = {}
      /\ (c.pc = "idle" /\ c.fn = "network" /\ c.n_late)
           => c.ret = [kind |-> "ok", network |-> cached_network]
      /\ (c.pc = "idle" /\ c.a_late)
           => c.ret = [kind |-> "ok",
                       network |-> cached_tx_assembler_address.network]

\* C14, step part: a filled cache is never cleared nor given another value
C14_NeverReplaced ==
    /\ cached_network # NoNetwork => cached_network' = cached_network
    /\ cached_tx_assembler_address # NoAddress
         => cached_tx_assembler_address' = cached_tx_assembler_address

\* C14: once network() (tx_assembler_address()) has returned successfully the
\* cached value is never cleared or replaced by a different value, and every
\* later call returns it without get_blockchain_info (without a key lookup).
C14_CacheMemoization == []C14_Memoized /\ [][C14_NeverReplaced]_vars

\* both functions were called again after their caches were filled
C14_Witness ==
    \E t, u \in Threads :
      /\ callers[t].pc = "idle" /\ callers[t].fn = "network"
      /\ callers[t].n_late /\ callers[t].ret.kind = "ok"
      /\ callers[u].pc = "idle" /\ callers[u].fn = "address"
      /\ callers[u].a_late /\ callers[u].ret.kind = "ok"

HoldsRead(t) == t \in locks.network.readers \/ t \in locks.address.readers

\* C15, state part: nobody asks for a write lock with a read lock in hand, a
\* recomputed network is the same value, and a returned value is the cached one
C15_Harmless ==
    \A t \in Threads :
      LET c == callers[t] IN
      /\ c.pc \in {"n_rpc", "n_write", "n_store", "a_key", "a_write", "a_store"}
           => ~HoldsRead(t)
      /\ c.net # NoNetwork => c.net = network_type(chain_name)
      /\ c.ret.kind = "ok"
           => IF c.fn = "network" THEN c.ret.network = cached_network
              ELSE address_of(c.ret.network) = cached_tx_assembler_address
      /\ c.pc = "idle" => (~HoldsRead(t) /\ locks.network.writer # t
                                          /\ locks.address.writer # t)

\* C15, step part: a cache changes only by the store of the thread that holds
\* its write lock, and every such store leaves that thread's value in it
C15_LastWriterWins ==
    /\ \A t \in Threads :
         /\ (callers[t].pc = "n_store" /\ callers'[t].pc # "n_store")
              => (locks.network.writer = t /\ cached_network' = callers[t].net)
         /\ (callers[t].pc = "a_store" /\ callers'[t].pc # "a_store")
              => /\ locks.address.writer = t
                 /\ cached_tx_assembler_address' = address_of(callers[t].net)
    /\ cached_network' # cached_network
         => \E t \in Threads : callers[t].pc = "n_store"
                                 /\ callers'[t].pc # "n_store"
    /\ cached_tx_assembler_address' # cached_tx_assembler_address
         => \E t \in Threads : callers[t].pc = "a_store"
                                 /\ callers'[t].pc # "a_store"

\* C15: for any interleaving of concurrent network() / tx_assembler_address()
\* calls from an empty cache, no caller holds a read lock while acquiring a
\* write lock, every caller returns, the cache holds the last writer's value,
\* and every caller returns the value that is finally cached.
C15_RacingMisses ==
    /\ []C15_Harmless
    /\ [][C15_LastWriterWins]_vars
    /\ \A t \in Threads : (callers[t].pc # "idle") ~> (callers[t].pc = "idle")

\* two threads both missed, both asked the node and both returned the value
C15_Witness ==
    \E t, u \in Threads :
      /\ t # u
      /\ \A v \in {t, u} :
           /\ callers[v].pc = "idle" /\ callers[v].fn = "network"
           /\ callers[v].io = {"get_blockchain_info"}
           /\ callers[v].ret = [kind |-> "ok", network |-> cached_network]

\* C16, step part: a rollback_to whose argument is the current tip (None on
\* an empty store) leaves the store as it is
C16_RollbackToTip ==
    (rb' # rb /\ rb'.site # "none" /\ rb'.ok
        /\ rb'.to = get_tip_beacon_header_slot(storage))
      => storage' = storage

\* C16, state part: after a verification that appended nothing, the rollback
\* of the failed workflow leaves the store as it was before the call
C16_NothingAppended ==
    (pc = "idle" /\ steps = <<"verify", "rollback">> /\ header_updates = <<>>)
      => (storage = pre_storage /\ rb.to = pre_storage.tip)

\* C16: rolling the store back to its current tip, or to None when it is
\* empty, leaves base, tip and records unchanged; hence a workflow that fails
\* after a verification that appended nothing leaves the store as before.
C16_IdempotentRollback == [][C16_RollbackToTip]_vars /\ []C16_NothingAppended

\* a non-empty store rolled back to its own tip after an empty verification
C16_Witness ==
    /\ pc = "idle" /\ steps = <<"verify", "rollback">> /\ header_updates = <<>>
    /\ rb.to = storage.tip /\ storage.tip > storage.base
    /\ storage = pre_storage

\* C17, step part: a call of print_status_log changes neither the store, the
\* configured type args, the caches nor the ledger
C17_ReadOnly ==
    calls' # calls
      => /\ status_log'.called
         /\ storage' = storage
         /\ config_type_id' = config_type_id
         /\ cached_onchain_packed_client' = cached_onchain_packed_client
         /\ cached_network' = cached_network
         /\ cached_tx_assembler_address' = cached_tx_assembler_address
         /\ ledger' = ledger

\* C17, state part: what was queried, what was rendered, and when it failed
C17_Rendered ==
    status_log.called
      => /\ status_log.queried = (config_type_id # NoTypeId)
         /\ status_log.ok = (status_log.read_failed = "none")
         /\ status_log.read_failed \in {"none", "ledger", "store"}
         /\ status_log.read_failed = "ledger" => status_log.queried
         /\ status_log.ok =>
              /\ status_log.onchain.none
                   = (\/ config_type_id = NoTypeId
                      \/ ~chain[config_type_id].exists)
              /\ ~status_log.onchain.none =>
                   /\ Len(status_log.onchain.lines) = ClientCount + 1
                   /\ \A i \in 1..ClientCount :
                        /\ status_log.onchain.lines[i]
                             = chain[config_type_id].clients[i - 1]
                        /\ status_log.onchain.lines[i].id = i - 1
                   /\ status_log.onchain.lines[ClientCount + 1].last_id
                        = chain[config_type_id].last_id
              /\ status_log.native.none
                   = ~(storage.base # NoSlot /\ storage.tip # NoSlot)
              /\ ~status_log.native.none =>
                   status_log.native.lines = <<storage.base, storage.tip>>

\* C17: print_status_log never changes the store, the configured type args or
\* a cache; it queries the ledger only if a type_id is configured, renders the
\* on-chain part as NONE when the type_id or the cells are absent and the
\* native part as NONE unless base and tip exist, and fails only when one of
\* its reads fails.
C17_StatusReadOnly == [][C17_ReadOnly]_vars /\ []C17_Rendered

\* a configured type_id whose cells are absent, with a non-empty store
C17_Witness ==
    /\ status_log.called /\ status_log.ok /\ status_log.queried
    /\ status_log.onchain.none /\ ~status_log.native.none
    /\ status_log.native.lines[2] > status_log.native.lines[1]

SlotsOf(batch) == {batch[i] : i \in DOMAIN batch}
Increasing(batch) == \A i, j \in DOMAIN batch : i < j => batch[i] < batch[j]

\* C18, step part: what the alignment step does to the batch and to the rest
C18_AlignStep ==
    (pc = "align" /\ pc' # "align")
      => /\ driver' = driver /\ ledger' = ledger
         /\ steps' = Append(steps, "align")
         /\ new_client' = NoClient /\ tx' = NoTx
         /\ LET onchain == cached_onchain_packed_client
                kept == {x \in SlotsOf(header_updates) :
                           onchain # NoClient => x > onchain.maximal_slot}
                contiguous == onchain # NoClient =>
                                (onchain.maximal_slot + 1) \in kept
            IN IF contiguous
               THEN /\ pc' = "verify"
                    /\ SlotsOf(header_updates') = kept
                    /\ Increasing(header_updates')
                    /\ result' = result
               ELSE /\ pc' = "idle"
                    /\ result'.kind = "alignment"

\* C18, state part: a call that returned the alignment error did nothing else
C18_FailsFast ==
    (Returned /\ result.kind = "alignment")
      => /\ steps[Len(steps)] = "align"
         /\ ~Has("verify") /\ NoSubmission /\ ~Verified
         /\ storage = pre_storage /\ rb.site = "none"

\* C18: alignment removes every update whose slot the on-chain latest client
\* covers, fails with the alignment error (kind Other) when what remains is
\* not contiguous with the on-chain frontier, changes only the batch and never
\* the store; on its failure the workflow returns before verification,
\* assembly or broadcast.
C18_AlignmentContract == [][C18_AlignStep]_vars /\ []C18_FailsFast

\* an update whose batch starts beyond the on-chain frontier was refused
C18_Witness ==
    /\ Returned /\ result.kind = "alignment" /\ op = "update"
    /\ header_updates # <<>>
    /\ header_updates[1] > cached_onchain_packed_client.maximal_slot + 1
    /\ storage = pre_storage /\ storage.tip # NoSlot

Tracked == tracked_msgs # NoTrackedMsgs

\* C19, state part: which workflow runs for which messages, and what the
\* refusals and the success return
C19_Dispatched ==
    Tracked =>
      /\ op = "create" <=> (tracked_msgs.converted
                             /\ tracked_msgs.tracking_id = "ETH_CREATE_CLIENT")
      /\ op = "update" <=> (tracked_msgs.converted
                             /\ tracked_msgs.tracking_id = "ETH_UPDATE_CLIENT")
      /\ op \in {"create", "update", "none"}
      /\ op = "none" =>
           /\ pc = "idle" /\ steps = <<>> /\ storage = pre_storage
           /\ tx = NoTx /\ new_client = NoClient
           /\ result.kind = "send_tx"
           /\ result.text = IF tracked_msgs.converted THEN "unknown msg"
                             ELSE "convert"
      /\ (Returned /\ result.kind = "ok")
           => (op # "none" /\ result.events = <<>>)

\* C19, step part: a call enters its workflow with all the updates of the
\* messages, and changes nothing by itself
C19_Entry ==
    calls' # calls
      => /\ driver' = driver /\ ledger' = ledger
         /\ op' # "none" => Len(header_updates') = tracked_msgs'.len
         /\ op' = "none" => header_updates' = <<>>

\* C19: send_messages_and_wait_commit runs create exactly for
\* ETH_CREATE_CLIENT and update exactly for ETH_UPDATE_CLIENT, returns the
\* send_tx "unknown msg" error for any other tracking id, returns a send_tx
\* error before any workflow when a message fails to convert, and returns an
\* empty event list on success.
C19_EntryDispatch == []C19_Dispatched /\ [][C19_Entry]_vars

\* a create dispatched from ETH_CREATE_CLIENT returned the empty event list
C19_Witness ==
    /\ Tracked /\ tracked_msgs.tracking_id = "ETH_CREATE_CLIENT"
    /\ Returned /\ op = "create" /\ result.kind = "ok"
    /\ result.events = <<>> /\ tracked_msgs.len > 0

C21_Records ==
    shape.pc = "assemble" =>
      /\ config_type_id = NoTypeId
      /\ Cardinality(DOMAIN shape.clients) = shape.cells_count - 1
      /\ {shape.clients[i].id : i \in DOMAIN shape.clients}
            = 0..(shape.cells_count - 2)
      /\ \A i, j \in DOMAIN shape.clients :
            shape.clients[i].id = shape.clients[j].id => i = j
      /\ \A i \in DOMAIN shape.clients :
            [shape.clients[i] EXCEPT !.id = shape.packed_client.id]
              = shape.packed_client
      /\ shape.client_info.last_id = 0
      /\ shape.client_info.minimal_updates_count = shape.minimal_updates_count
C21_Abort ==
    [][ShapeCreate /\ config_type_id = NoTypeId /\ shape'.cells_count = 0
         => /\ shape'.pc = "panicked"
            /\ shape'.steps = <<>>
            /\ storage' = storage]_vars
C21_Stuck ==
    [][shape.pc = "panicked" => shape'.steps = <<>> /\ storage' = storage]_vars
C21_CreateShape == []C21_Records /\ C21_Abort /\ C21_Stuck
C21_Witness ==
    /\ shape.pc = "assemble"
    /\ shape.cells_count = CellsCount
    /\ shape.packed_client.id # 0
    /\ Cardinality(DOMAIN shape.clients) = CellsCount - 1
    /\ calls > 1

\* C22: the span check of an update uses the minimal_updates_count of the
\* info cell fetched in the same call, not the configured one; the span check
\* of a create uses the configured one, which is also written to the new
\* ClientInfo.
C22_UpdateSource ==
    [][CheckSpan /\ op = "update"
         => /\ update_cells.found
            /\ update_cells.info.minimal_updates_count
                 = chain[config_type_id].minimal_updates_count
            /\ pc' = "address"
                 <=> span(new_client) >= update_cells.info.minimal_updates_count]_vars
C22_CreateSource ==
    [][CheckSpan /\ op = "create"
         => pc' = "address" <=> span(new_client) >= ConfigMinimalUpdatesCount]_vars
C22_CreateInfo ==
    tx # NoTx /\ tx.kind = "create"
      => tx.info.minimal_updates_count = ConfigMinimalUpdatesCount
C22_MinimalSpanSource == C22_UpdateSource /\ C22_CreateSource /\ []C22_CreateInfo
C22_Witness ==
    /\ op = "update" /\ pc = "address"
    /\ span(new_client) < ConfigMinimalUpdatesCount
    /\ span(new_client) >= update_cells.info.minimal_updates_count

\* C23: an update without a configured type_id fails before any ledger
\* query; an update whose fetch finds no family cells fails with "no
\* multi-client cells found"; in both cases the store, the cached on-chain
\* client and the configuration are unchanged and nothing is verified,
\* assembled or broadcast. A create with a configured type_id whose cells are
\* not found fails with an error and never mints a family.
C23_NoTypeId ==
    [][UpdateStart /\ config_type_id = NoTypeId
         => /\ pc' = "idle" /\ result' = Err("no_type_id")
            /\ steps' = <<>>
            /\ UNCHANGED <<driver, ledger>>]_vars
C23_NoCells ==
    [][UpdateFetch /\ ~chain[config_type_id].exists
         => /\ pc' = "idle" /\ result' \in {Err("no_cells"), Err("rpc")}
            /\ steps' = <<"fetch">>
            /\ UNCHANGED <<driver, ledger>>]_vars
C23_CreateNoCells ==
    [][CreateFetch /\ ~chain[config_type_id].exists
         => /\ pc' = "idle"
            /\ result' \in {Err("no_cells_for_config"), Err("rpc")}
            /\ steps' = <<"fetch">>
            /\ UNCHANGED <<driver, ledger>>]_vars
C23_NothingDone ==
    (Returned /\ result.kind \in {"no_type_id", "no_cells", "no_cells_for_config"})
      => /\ ~Has("verify") /\ ~Has("assemble") /\ ~Has("broadcast")
         /\ tx = NoTx /\ new_client = NoClient
         /\ storage = pre_storage
C23_UpdatePreconditions ==
    C23_NoTypeId /\ C23_NoCells /\ C23_CreateNoCells /\ []C23_NothingDone
C23_Witness ==
    /\ Returned /\ op = "update" /\ result.kind = "no_cells"
    /\ config_type_id = PreTypeId /\ storage = pre_storage
    /\ cached_onchain_packed_client = NoClient

\* C24: in every update, alignment and verification run against the latest
\* client cell fetched from the ledger in that same call: the cached on-chain
\* client is overwritten with it before alignment starts, and the cache keeps
\* the fetched value when the update fails later.
C24_Overwritten ==
    [][UpdateFetch /\ pc' = "align"
         => /\ update_cells'.latest = LatestOf(chain[config_type_id])
            /\ cached_onchain_packed_client' = update_cells'.latest]_vars
C24_UsedAndKept ==
    (op = "update" /\ (update_cells.found \/ pc \in {"align", "verify"}))
      => /\ update_cells.found
         /\ cached_onchain_packed_client = update_cells.latest
C24_AlignedAgainstIt ==
    [][Align /\ op = "update"
         => pc' = "verify"
              <=> align_ok(header_updates, update_cells.latest)]_vars
C24_FreshReference ==
    C24_Overwritten /\ []C24_UsedAndKept /\ C24_AlignedAgainstIt
C24_Witness ==
    /\ Returned /\ op = "update" /\ result.kind = "alignment"
    /\ calls >= 2
    /\ cached_onchain_packed_client = update_cells.latest
    /\ cached_onchain_packed_client.maximal_slot > 1

\* C25: on a driver whose configuration is changed by its own workflows only,
\* no configured type_id implies that the cached on-chain client is absent, so
\* the alignment and the verification of a bootstrap create run without an
\* on-chain reference client.
C25_NoTypeIdNoCache ==
    config_type_id = NoTypeId => cached_onchain_packed_client = NoClient
C25_BootstrapReference ==
    (op = "create" /\ pc \in {"align", "verify"})
      => config_type_id = NoTypeId /\ cached_onchain_packed_client = NoClient
C25_NothingTrimmed ==
    [][Align /\ op = "create"
         => pc' = "verify" /\ header_updates' = header_updates]_vars
C25_BootstrapWithoutReference ==
    []C25_NoTypeIdNoCache /\ []C25_BootstrapReference /\ C25_NothingTrimmed
C25_Witness ==
    /\ op = "create" /\ pc = "verify" /\ calls >= 2
    /\ header_updates # <<>>
    /\ cached_onchain_packed_client = NoClient

\* the create transactions this driver saw Confirmed: their families exist,
\* their wait did not time out and is not still running
ConfirmedCreates ==
    {t \in TypeIds \ {PreTypeId} :
        /\ chain[t].exists
        /\ t \notin timed_out
        /\ ~(pc = "poll" /\ tx.hash = t)}

\* C26 (as claimed): after a create has returned successfully, every later
\* create on the driver fails with "already exists at slot N" or with "no
\* multi-client cells found for config", without verifying, changing the store
\* or broadcasting; a driver broadcasts at most one confirmed create
\* transaction.
C26_LaterCreateErrors ==
    [][CreateFetch /\ past.bootstrapped
         => result'.kind \in {"already_exists", "no_cells_for_config"}]_vars
C26_LaterCreate ==
    [][CreateStart /\ past.bootstrapped => pc' = "c_fetch"]_vars
C26_LaterCreateFails ==
    [][CreateFetch /\ past.bootstrapped
         => /\ pc' = "idle" /\ steps' = <<"fetch">>
            /\ UNCHANGED <<storage, ledger, config_type_id>>]_vars
C26_OneConfirmedCreate == Cardinality(ConfirmedCreates) <= 1
C26_OneBootstrap ==
    /\ C26_LaterCreate /\ C26_LaterCreateFails /\ C26_LaterCreateErrors
    /\ []C26_OneConfirmedCreate

\* C26 (amended): after a create has returned successfully, every later
\* create on the driver fails with "already exists at slot N", with "no
\* multi-client cells found for config" or with the transport error of the
\* existence check, without verifying, changing the store or broadcasting; a
\* driver broadcasts at most one confirmed create transaction.
C26_LaterCreateErrorsOrRpc ==
    [][CreateFetch /\ past.bootstrapped
         => result'.kind \in {"already_exists", "no_cells_for_config", "rpc"}]_vars
C26_OneBootstrapOrRpc ==
    /\ C26_LaterCreate /\ C26_LaterCreateFails /\ C26_LaterCreateErrorsOrRpc
    /\ []C26_OneConfirmedCreate
C26_Witness ==
    /\ Returned /\ op = "create" /\ result.kind = "already_exists"
    /\ past.bootstrapped
    /\ config_type_id \notin {NoTypeId, PreTypeId}
    /\ ConfirmedCreates = {config_type_id}
    /\ storage = pre_storage /\ tx = NoTx

\* C27: when the transaction of a create or update was Confirmed and the
\* status report that follows fails on a read, the workflow returns that
\* error, the store is not rolled back and keeps the newly verified slots,
\* and for create the minted type_id stays in the configuration.
C27_ErrorReturned ==
    [][Finish /\ ~status_log'.ok
         => /\ pc' = "idle" /\ result' = Err("status")
            /\ storage' = storage /\ rb' = NoRollback
            /\ op = "create" => config_type_id' = tx.type_id]_vars
C27_NotRolledBack ==
    (Returned /\ result.kind = "status")
      => /\ outcome = "Confirmed" /\ tx.hash \in committed
         /\ ~status_log.ok /\ status_log.read_failed \in {"ledger", "store"}
         /\ rb = NoRollback
         /\ storage.tip = new_client.maximal_slot
         /\ storage # pre_storage
         /\ op = "create" => config_type_id = tx.type_id
C27_StatusFailureKeepsStore == C27_ErrorReturned /\ []C27_NotRolledBack
C27_Witness ==
    /\ Returned /\ result.kind = "status" /\ op = "create"
    /\ status_log.read_failed = "store"
    /\ pre_storage = EmptyStorage /\ storage.tip = new_client.maximal_slot
    /\ config_type_id = tx.type_id /\ ~past.bootstrapped

\* C28: when the Verifier Adapter returns an error, the workflow returns that
\* error at once, with no rollback call, no assembly and no broadcast, and the
\* store's tip at the return equals its tip before the call.
C28_ReturnsAtOnce ==
    [][Verify /\ new_client' = NoClient
         => /\ pc' = "idle" /\ result' = Err("verification")
            /\ rb' = NoRollback /\ storage' = storage
            /\ tx' = NoTx /\ UNCHANGED ledger]_vars
C28_TipKept ==
    (Returned /\ result.kind = "verification")
      => /\ steps[Len(steps)] = "verify"
         /\ ~Has("rollback") /\ rb = NoRollback
         /\ ~Has("assemble") /\ ~Has("broadcast")
         /\ get_tip_beacon_header_slot(storage)
              = get_tip_beacon_header_slot(pre_storage)
C28_VerificationFailure == C28_ReturnsAtOnce /\ []C28_TipKept
C28_Witness ==
    /\ Returned /\ result.kind = "verification" /\ op = "update"
    /\ header_updates # <<>>
    /\ storage.tip # NoSlot /\ storage = pre_storage

\* C29: query_clients returns at most one client state, and a non-empty list
\* exactly when an earlier create or update of this driver fetched an existing
\* on-chain latest client cell: the list is empty on a fresh driver and stays
\* empty after a successful bootstrap create until a later call fetches the
\* family's cells.
C29_Reply ==
    [][QueryClients
         => /\ Len(clients_reply'.clients) <= 1
            /\ clients_reply'.clients # <<>> <=> past.fetched]_vars
C29_FreshDriver ==
    [][QueryClients /\ calls = 0 => clients_reply'.clients = <<>>]_vars
C29_AfterBootstrap ==
    [][QueryClients /\ past.bootstrapped /\ ~past.fetched
         => clients_reply'.clients = <<>>]_vars
C29_QueryClients == C29_Reply /\ C29_FreshDriver /\ C29_AfterBootstrap
C29_Witness ==
    /\ clients_reply.asked /\ clients_reply.clients = <<>>
    /\ past.bootstrapped /\ ~past.fetched
    /\ pc = "idle" /\ result.kind = "ok" /\ config_type_id # NoTypeId

\* C30: a failed cache fill is not memoized: when get_blockchain_info fails
\* in network(), or the network resolution or the key lookup fails in
\* tx_assembler_address(), the cache stays as it was and the next call on an
\* empty cache resolves again; a resolved network is Mainnet for "ckb",
\* Testnet for "ckb_testnet" and Dev for any other name, and a cached fee-payer
\* address carries the network that was cached when it was derived.
C30_FailureNotStored ==
    [][\A t \in Threads :
         (callers[t].pc \in {"n_rpc", "a_key"} /\ callers'[t].pc = "idle")
           => /\ callers'[t].ret.kind \in {"rpc_response", "key_base"}
              /\ callers'[t].ret.network = NoNetwork
              /\ UNCHANGED <<cached_network, cached_tx_assembler_address>>]_vars
C30_ResolvedAgain ==
    [][\A t \in Threads :
         /\ (NetCopy(t) /\ cached_network = NoNetwork)
              => callers'[t].pc = "n_rpc"
         /\ (AddrCopy(t) /\ cached_tx_assembler_address = NoAddress)
              => callers'[t].pc = "n_read"]_vars
C30_NetworkOfName ==
    cached_network # NoNetwork
      => cached_network = IF chain_name = "ckb" THEN "Mainnet"
                          ELSE IF chain_name = "ckb_testnet" THEN "Testnet"
                          ELSE "Dev"
C30_AddressNetwork ==
    cached_tx_assembler_address # NoAddress
      => /\ cached_network # NoNetwork
         /\ cached_tx_assembler_address.network = cached_network
C30_FailedFills ==
    /\ C30_FailureNotStored /\ C30_ResolvedAgain
    /\ []C30_NetworkOfName /\ []C30_AddressNetwork
C30_Witness ==
    /\ chain_name = "ckb_testnet"
    /\ callers[1].pc = "idle" /\ callers[1].fn = "address"
    /\ callers[1].ret.kind = "key_base"
    /\ callers[2].pc = "idle" /\ callers[2].fn = "address"
    /\ callers[2].ret = [kind |-> "ok", network |-> "Testnet"]
    /\ ~callers[2].a_late /\ callers[2].n_late
    /\ "get_key" \in callers[2].io
    /\ cached_tx_assembler_address = address_of("Testnet")

\* C31: the span maximal_slot - minimal_slot + 1 is computed in unsigned
\* 64-bit arithmetic and compared with the widened 8-bit
\* minimal_updates_count. For a record with minimal_slot <= maximal_slot and
\* maximal_slot - minimal_slot below the largest u64, nothing underflows or
\* overflows and the verdict is the one of the exact span; for a record with
\* maximal_slot < minimal_slot the subtraction leaves the range: the test
\* panics or judges the wrapped span, so the verdict rests on the verifier
\* keeping minimal_slot <= maximal_slot.
C31_Exact ==
    (/\ span_check.asked
     /\ span_check.minimal_slot <= span_check.maximal_slot
     /\ span_check.maximal_slot - span_check.minimal_slot < SlotModulus - 1)
      => /\ ~span_check.underflow /\ ~span_check.overflow
         /\ span_check.outcome \in {"rejected", "accepted"}
         /\ span_check.outcome = "rejected"
              <=> span_check.maximal_slot - span_check.minimal_slot + 1
                    < span_check.minimal_updates_count
         /\ span_check.outcome = "rejected"
              <=> not_enough_updates(
                    Client(0, span_check.minimal_slot, span_check.maximal_slot),
                    span_check.minimal_updates_count)
C31_InvariantNeeded ==
    (span_check.asked /\ span_check.maximal_slot < span_check.minimal_slot)
      => /\ span_check.underflow
         /\ span_check.outcome # "panic"
              => (span_check.outcome = "rejected"
                    <=> (SlotModulus + span_check.maximal_slot
                           - span_check.minimal_slot + 1) % SlotModulus
                          < span_check.minimal_updates_count)
C31_SpanArithmetic == C31_Exact /\ C31_InvariantNeeded
C31_Witness ==
    /\ span_check.asked
    /\ span_check.minimal_slot = 1
    /\ span_check.maximal_slot = SlotModulus - 1
    /\ span_check.minimal_updates_count = SlotModulus \div 4 - 1
    /\ span_check.outcome = "accepted"
    /\ ~span_check.underflow /\ ~span_check.overflow

====
